---- MODULE Spec2Model ----
(***************************************************************************)
(* The AIP inbox server (src/server.js) as a state machine: the task and   *)
(* receipt stores, the nonce tracker with its periodic sweep and its       *)
(* persisted file, the per-requester rate buckets, and the HTTP handlers   *)
(* POST /inbox, GET /tasks/:id/status, POST /tasks/:id/complete and        *)
(* POST /tasks/:id/reject.  Time is the value of Date.now() in ms.         *)
(***************************************************************************)
EXTENDS Integers, Sequences, FiniteSets, TLC

VARIABLES
    now,          \* Date.now()
    seenNonces,   \* Map nonce -> first-seen epoch ms (in memory)
    nonceFile,    \* data/seen-nonces.json: << >> when absent, <<map>> otherwise
    nextSweep,    \* the time at which the setInterval callback is next due
    rateBuckets,  \* Map requester_id -> list of request times (in memory)
    tasks,        \* data/tasks/<task_id>.json
    receipts,     \* data/receipts/<task_id>.json
    resp,         \* the HTTP response of the last handler that ran
    nops,         \* number of HTTP requests handled so far
    last,         \* history: the request handled last
    nonceLog,     \* history: every nonce checkNonce recorded, by whom and when
    pendingPayments, \* L402Bridge.pendingPayments: Map taskId -> payment
    published,    \* history: the events publishReceipt finalized, in order
    inflight,     \* POST /inbox requests received whose handler has not run yet
    taskFiles,    \* picoclaw-bridge: the aip-*.json files in PICOCLAW_TASKS_DIR
    processed,    \* picoclaw-bridge: the Set of processed file names (in memory)
    processedFile, \* data/picoclaw-processed.json
    tracking,     \* PICOCLAW_RESULTS_DIR: Map <name>-tracking.json -> content
    callbacks,    \* picoclaw-bridge: the running invocations of the interval callback
    uuids,        \* picoclaw-bridge: number of crypto.randomUUID() pairs drawn
    submissions   \* history: every fetch submitTask issued, in order

vars == <<now, seenNonces, nonceFile, nextSweep, rateBuckets, tasks, receipts,
          resp, nops, last, nonceLog, pendingPayments, published, inflight,
          taskFiles, processed, processedFile, tracking, callbacks, uuids,
          submissions>>

\* the state of the filesystem bridge (src/picoclaw-bridge.js)
picoclawVars == <<taskFiles, processed, processedFile, tracking, callbacks, uuids,
                  submissions>>

\* the state of the programs beside the server
clientVars == <<pendingPayments, published, picoclawVars>>

\* what the server's handlers other than POST /inbox leave alone
bridgeVars == <<clientVars, inflight>>

\* ------------------------------------------------------------------ config
RATE_WINDOW_MS == 60000
RATE_MAX_REQUESTS == 10
DESCRIPTION_PREVIEW == 200
AIP_EVENT_KIND == 30078
AIP_RECEIPT_KIND == 30079
NONCE_EXPIRY_MS == 300000
SWEEP_INTERVAL_MS == 30000
maxPrice == 10000

\* ------------------------------------------------------------------ bounds
MaxOps == 3
MaxTicks == 1
MaxOpsInbox == 1
MaxOpsRun == 2
MaxTicksRun == 21
MaxOpsRate == 11
MaxTicksRate == 2
MaxOpsList == 4
MaxOpsNostr == 3
MaxOpsRepublish == 6
MaxOpsDiscover == 1
MaxOpsPayment == 4
MaxOpsOrder == 11
MaxOpsAdmit == 12

\* ------------------------------------------------------- JavaScript values
Null == "null"
Undefined == "undefined"

\* JavaScript truthiness of the scalar values used here ("n:0" is the number 0,
\* "b:false" the boolean false, "" the empty string).
Falsy(v) == v \in {"", "n:0", "b:false", Null, Undefined}

\* x || d
OrElse(x, d) == IF Falsy(x) THEN d ELSE x

\* A timestamp field: an ISO-8601 string denoting the instant ms, a string that
\* is no date, or the empty string.
IsoString(ms) == [kind |-> "iso", ms |-> ms]
GarbageString == [kind |-> "garbage", ms |-> 0]
EmptyString == [kind |-> "empty", ms |-> 0]

\* new Date().toISOString()
toISOString(t) == IsoString(t)

\* new Date(timestamp).getTime(): a number, or NaN for what is no date
NaN == [nan |-> TRUE, v |-> 0]
Num(n) == [nan |-> FALSE, v |-> n]
DateGetTime(timestamp) ==
    IF timestamp.kind = "iso" THEN Num(timestamp.ms) ELSE NaN

\* IEEE arithmetic with NaN: NaN propagates, every comparison with NaN is false
NumSub(a, b) == IF a.nan \/ b.nan THEN NaN ELSE Num(a.v - b.v)
MathAbs(a) == IF a.nan THEN NaN ELSE Num(IF a.v < 0 THEN 0 - a.v ELSE a.v)
NumGt(a, n) == ~a.nan /\ a.v > n

\* ------------------------------------------------------------ map helpers
EmptyMap == << >>
MapSet(m, k, v) == [x \in (DOMAIN m) \cup {k} |-> IF x = k THEN v ELSE m[x]]
MapRestrict(m, keep) == [x \in keep |-> m[x]]

\* ------------------------------------------------------------- signatures
AgentPublicKey == "pkAgent"
SecretKeyOf(publicKey) == <<"sk", publicKey>>

SignedFields ==
    <<"task_id", "requester_id", "task_type", "description", "params",
      "payment_offer", "callback_url", "deadline", "nonce", "timestamp">>
OptionalFields == {"params", "payment_offer", "callback_url", "deadline"}

\* JSON.stringify of an object with the given keys in insertion order:
\* properties whose value is undefined are left out.
Stringify(m, keys) ==
    SelectSeq([i \in 1..Len(keys) |-> <<keys[i], m[keys[i]]>>],
              LAMBDA p : ~(p[1] \in OptionalFields /\ p[2] = Undefined))

\* nacl.sign.detached over the message bytes (Ed25519, symbolic)
Detached(bytes, secretKey) == [signer |-> secretKey, bytes |-> bytes]
NoSignature == [signer |-> <<"", "">>, bytes |-> << >>]
GarbageSignature == [signer |-> <<"garbage", "">>, bytes |-> << >>]

\* Mutant: the server verifies over the fields without the deadline.
messageToVerifyWithoutDeadline(req) ==
    [k \in {SignedFields[i] : i \in 1..Len(SignedFields)} |->
        IF k = "deadline" THEN Undefined ELSE req[k]]

messageToVerify(req) == [k \in {SignedFields[i] : i \in 1..Len(SignedFields)} |-> req[k]]

\* Mutant: the signing key is checked, the signed bytes are not.
verifySignatureSignerOnly(message, signature, publicKey) ==
    signature.signer = SecretKeyOf(publicKey)

verifySignature(message, signature, publicKey) ==
    /\ signature.signer = SecretKeyOf(publicKey)
    /\ signature.bytes = Stringify(message, SignedFields)


\* crypto.createHash('sha256').update(JSON.stringify(result)).digest('hex'):
\* JSON.stringify is injective on the scalar results used here, SHA-256 is
\* treated as collision free.
JSONStringify(v) == <<"json", v>>
SHA256Hex(bytes) == <<"sha256", bytes>>

ReceiptFields ==
    <<"task_id", "requester_id", "agent_id", "task_type",
      "completion_timestamp", "result_hash", "payment_proof">>

signMessage(message, keys) ==
    Detached(Stringify(message, keys), SecretKeyOf(AgentPublicKey))

\* ---------------------------------------------------------------- manifest
ManifestCapabilities ==
    {"research.security", "research.web", "code.review", "code.generate",
     "writing.technical", "writing.creative", "data.analysis",
     "orchestration.delegate"}

\* ------------------------------------------------------------ rate limiter
\* Mutant: an entry exactly one window old is still counted.
checkRateLimitInclusive(buckets, requesterId, t) ==
    LET had == IF requesterId \in DOMAIN buckets THEN buckets
               ELSE MapSet(buckets, requesterId, << >>)
        bucket == SelectSeq(had[requesterId], LAMBDA ts : t - ts <= RATE_WINDOW_MS)
    IN  IF Len(bucket) >= RATE_MAX_REQUESTS
        THEN [ok |-> FALSE, buckets |-> had]
        ELSE [ok |-> TRUE, buckets |-> MapSet(had, requesterId, Append(bucket, t))]

\* Mutant: old entries are never evicted.
checkRateLimitNoEvict(buckets, requesterId, t) ==
    LET had == IF requesterId \in DOMAIN buckets THEN buckets
               ELSE MapSet(buckets, requesterId, << >>)
        bucket == had[requesterId]
    IN  IF Len(bucket) >= RATE_MAX_REQUESTS
        THEN [ok |-> FALSE, buckets |-> had]
        ELSE [ok |-> TRUE, buckets |-> MapSet(had, requesterId, Append(bucket, t))]

\* Mutant: a refused request is pushed on the bucket as well.
checkRateLimitCountsRefused(buckets, requesterId, t) ==
    LET had == IF requesterId \in DOMAIN buckets THEN buckets
               ELSE MapSet(buckets, requesterId, << >>)
        bucket == SelectSeq(had[requesterId], LAMBDA ts : t - ts < RATE_WINDOW_MS)
    IN  IF Len(bucket) >= RATE_MAX_REQUESTS
        THEN [ok |-> FALSE, buckets |-> MapSet(had, requesterId, Append(bucket, t))]
        ELSE [ok |-> TRUE, buckets |-> MapSet(had, requesterId, Append(bucket, t))]

\* checkRateLimit: the outcome and the rateBuckets map it leaves behind
checkRateLimit(buckets, requesterId, t) ==
    LET had == IF requesterId \in DOMAIN buckets THEN buckets
               ELSE MapSet(buckets, requesterId, << >>)
        bucket == SelectSeq(had[requesterId], LAMBDA ts : t - ts < RATE_WINDOW_MS)
    IN  IF Len(bucket) >= RATE_MAX_REQUESTS
        THEN [ok |-> FALSE, buckets |-> had]
        ELSE [ok |-> TRUE, buckets |-> MapSet(had, requesterId, Append(bucket, t))]

\* ----------------------------------------------------------- nonce tracker
\* Mutant: the replay lookup is left out, a seen nonce is recorded again.
checkNonceNoReplay(seen, nonce, timestamp, t) ==
    LET ts == DateGetTime(timestamp)
    IN  IF NumGt(MathAbs(NumSub(Num(t), ts)), NONCE_EXPIRY_MS)
        THEN [ok |-> FALSE, seen |-> seen]
        ELSE [ok |-> TRUE, seen |-> MapSet(seen, nonce, t)]

\* Mutant: the lookup and the record are not one step: the nonce is looked up
\* but the record of it is lost.
checkNonceNoRecord(seen, nonce, timestamp, t) ==
    LET ts == DateGetTime(timestamp)
    IN  IF NumGt(MathAbs(NumSub(Num(t), ts)), NONCE_EXPIRY_MS)
        THEN [ok |-> FALSE, seen |-> seen]
        ELSE IF nonce \in DOMAIN seen
        THEN [ok |-> FALSE, seen |-> seen]
        ELSE [ok |-> TRUE, seen |-> seen]

\* Mutant: the window test is >= instead of >.
checkNonceInclusive(seen, nonce, timestamp, t) ==
    LET ts == DateGetTime(timestamp)
    IN  IF NumGt(MathAbs(NumSub(Num(t), ts)), NONCE_EXPIRY_MS - 1)
        THEN [ok |-> FALSE, seen |-> seen]
        ELSE IF nonce \in DOMAIN seen
        THEN [ok |-> FALSE, seen |-> seen]
        ELSE [ok |-> TRUE, seen |-> MapSet(seen, nonce, t)]

\* Mutant: timestamps are accepted within twice the replay window.
checkNonceTwiceWindow(seen, nonce, timestamp, t) ==
    LET ts == DateGetTime(timestamp)
    IN  IF NumGt(MathAbs(NumSub(Num(t), ts)), NONCE_EXPIRY_MS * 2)
        THEN [ok |-> FALSE, seen |-> seen]
        ELSE IF nonce \in DOMAIN seen
        THEN [ok |-> FALSE, seen |-> seen]
        ELSE [ok |-> TRUE, seen |-> MapSet(seen, nonce, t)]

\* checkNonce: the outcome and the seenNonces map it leaves behind
checkNonce(seen, nonce, timestamp, t) ==
    LET ts == DateGetTime(timestamp)
    IN  IF NumGt(MathAbs(NumSub(Num(t), ts)), NONCE_EXPIRY_MS)
        THEN [ok |-> FALSE, seen |-> seen]
        ELSE IF nonce \in DOMAIN seen
        THEN [ok |-> FALSE, seen |-> seen]
        ELSE [ok |-> TRUE, seen |-> MapSet(seen, nonce, t)]

\* Mutant: entries are pruned after one replay window instead of two.
PruneNoncesOneWindow(seen, t) ==
    MapRestrict(seen, {n \in DOMAIN seen : ~(t - seen[n] > NONCE_EXPIRY_MS)})

\* Mutant: an entry exactly two windows old is pruned too.
PruneNoncesInclusive(seen, t) ==
    MapRestrict(seen, {n \in DOMAIN seen : ~(t - seen[n] >= NONCE_EXPIRY_MS * 2)})

\* the prune of the setInterval callback
PruneNonces(seen, t) ==
    MapRestrict(seen, {n \in DOMAIN seen : ~(t - seen[n] > NONCE_EXPIRY_MS * 2)})

\* ------------------------------------------------------------------ stores
loadTask(store, taskId) == IF taskId \in DOMAIN store THEN <<store[taskId]>> ELSE << >>
saveTask(store, task) == MapSet(store, task.task_id, task)
saveReceipt(store, receipt) == MapSet(store, receipt.task_id, receipt)

\* --------------------------------------------------------------- responses
NoResponse == [op |-> "none", code |-> 0, body |-> [error |-> "none"]]
Response(op, code, body) == [op |-> op, code |-> code, body |-> body]
ErrorBody(kind) == [error |-> kind]

\* ------------------------------------------------------------- POST /inbox
MissingRequired(req) ==
    \/ Falsy(req.task_id) \/ Falsy(req.requester_id) \/ Falsy(req.task_type)
    \/ Falsy(req.description) \/ Falsy(req.nonce)
    \/ req.timestamp = EmptyString \/ req.signature = NoSignature

\* Mutant: the record is stored with the response's status word.
NewTaskAccepted(req, t) ==
    [task_id |-> req.task_id,
     requester_id |-> req.requester_id,
     task_type |-> req.task_type,
     description |-> req.description,
     params |-> OrElse(req.params, Null),
     payment_offer |-> OrElse(req.payment_offer, Null),
     callback_url |-> OrElse(req.callback_url, Null),
     deadline |-> OrElse(req.deadline, Null),
     nonce |-> req.nonce,
     timestamp |-> req.timestamp,
     status |-> "accepted",
     created |-> toISOString(t),
     updated |-> toISOString(t),
     result |-> Null,
     receipt |-> << >>,
     rejection_reason |-> Undefined]

NewTask(req, t) ==
    [task_id |-> req.task_id,
     requester_id |-> req.requester_id,
     task_type |-> req.task_type,
     description |-> req.description,
     params |-> OrElse(req.params, Null),
     payment_offer |-> OrElse(req.payment_offer, Null),
     callback_url |-> OrElse(req.callback_url, Null),
     deadline |-> OrElse(req.deadline, Null),
     nonce |-> req.nonce,
     timestamp |-> req.timestamp,
     status |-> "pending",
     created |-> toISOString(t),
     updated |-> toISOString(t),
     result |-> Null,
     receipt |-> << >>,
     rejection_reason |-> Undefined]

\* Mutant: the signature is verified before the nonce and timestamp are
\* checked.
InboxOutcomeSignatureFirst(req, t, buckets, seen, store) ==
    LET rl == checkRateLimit(buckets, req.requester_id, t)
        nc == checkNonce(seen, req.nonce, req.timestamp, t)
    IN  IF MissingRequired(req)
        THEN [resp |-> Response("inbox", 400, ErrorBody("missing_fields")),
              buckets |-> buckets, seen |-> seen, tasks |-> store]
        ELSE IF ~rl.ok
        THEN [resp |-> Response("inbox", 429, ErrorBody("rate_limited")),
              buckets |-> rl.buckets, seen |-> seen, tasks |-> store]
        ELSE IF ~verifySignature(messageToVerify(req), req.signature, req.requester_id)
        THEN [resp |-> Response("inbox", 401, ErrorBody("invalid_signature")),
              buckets |-> rl.buckets, seen |-> seen, tasks |-> store]
        ELSE IF ~nc.ok
        THEN [resp |-> Response("inbox", 400, ErrorBody("invalid_nonce")),
              buckets |-> rl.buckets, seen |-> nc.seen, tasks |-> store]
        ELSE IF req.task_type \notin ManifestCapabilities
        THEN [resp |-> Response("inbox", 404,
                         [error |-> "capability_not_found",
                          supported |-> ManifestCapabilities]),
              buckets |-> rl.buckets, seen |-> nc.seen, tasks |-> store]
        ELSE [resp |-> Response("inbox", 201,
                         [error |-> "none", status |-> "accepted",
                          task_id |-> req.task_id]),
              buckets |-> rl.buckets, seen |-> nc.seen,
              tasks |-> saveTask(store, NewTask(req, t))]

\* Mutant: the capability is looked up before the signature is verified.
InboxOutcomeCapabilityFirst(req, t, buckets, seen, store) ==
    LET rl == checkRateLimit(buckets, req.requester_id, t)
        nc == checkNonce(seen, req.nonce, req.timestamp, t)
    IN  IF MissingRequired(req)
        THEN [resp |-> Response("inbox", 400, ErrorBody("missing_fields")),
              buckets |-> buckets, seen |-> seen, tasks |-> store]
        ELSE IF ~rl.ok
        THEN [resp |-> Response("inbox", 429, ErrorBody("rate_limited")),
              buckets |-> rl.buckets, seen |-> seen, tasks |-> store]
        ELSE IF ~nc.ok
        THEN [resp |-> Response("inbox", 400, ErrorBody("invalid_nonce")),
              buckets |-> rl.buckets, seen |-> nc.seen, tasks |-> store]
        ELSE IF req.task_type \notin ManifestCapabilities
        THEN [resp |-> Response("inbox", 404,
                         [error |-> "capability_not_found",
                          supported |-> ManifestCapabilities]),
              buckets |-> rl.buckets, seen |-> nc.seen, tasks |-> store]
        ELSE IF ~verifySignature(messageToVerify(req), req.signature, req.requester_id)
        THEN [resp |-> Response("inbox", 401, ErrorBody("invalid_signature")),
              buckets |-> rl.buckets, seen |-> nc.seen, tasks |-> store]
        ELSE [resp |-> Response("inbox", 201,
                         [error |-> "none", status |-> "accepted",
                          task_id |-> req.task_id]),
              buckets |-> rl.buckets, seen |-> nc.seen,
              tasks |-> saveTask(store, NewTask(req, t))]

\* The handler's outcome on a given state: the response and the state it leaves.
InboxOutcome(req, t, buckets, seen, store) ==
    LET rl == checkRateLimit(buckets, req.requester_id, t)
        nc == checkNonce(seen, req.nonce, req.timestamp, t)
    IN  IF MissingRequired(req)
        THEN [resp |-> Response("inbox", 400, ErrorBody("missing_fields")),
              buckets |-> buckets, seen |-> seen, tasks |-> store]
        ELSE IF ~rl.ok
        THEN [resp |-> Response("inbox", 429, ErrorBody("rate_limited")),
              buckets |-> rl.buckets, seen |-> seen, tasks |-> store]
        ELSE IF ~nc.ok
        THEN [resp |-> Response("inbox", 400, ErrorBody("invalid_nonce")),
              buckets |-> rl.buckets, seen |-> nc.seen, tasks |-> store]
        ELSE IF ~verifySignature(messageToVerify(req), req.signature, req.requester_id)
        THEN [resp |-> Response("inbox", 401, ErrorBody("invalid_signature")),
              buckets |-> rl.buckets, seen |-> nc.seen, tasks |-> store]
        ELSE IF req.task_type \notin ManifestCapabilities
        THEN [resp |-> Response("inbox", 404,
                         [error |-> "capability_not_found",
                          supported |-> ManifestCapabilities]),
              buckets |-> rl.buckets, seen |-> nc.seen, tasks |-> store]
        ELSE [resp |-> Response("inbox", 201,
                         [error |-> "none", status |-> "accepted",
                          task_id |-> req.task_id]),
              buckets |-> rl.buckets, seen |-> nc.seen,
              tasks |-> saveTask(store, NewTask(req, t))]

PostInbox(req) ==
    LET out == InboxOutcome(req, now, rateBuckets, seenNonces, tasks)
    IN  /\ resp' = out.resp
        /\ rateBuckets' = out.buckets
        /\ seenNonces' = out.seen
        /\ tasks' = out.tasks
        /\ nops' = nops + 1
        /\ last' = [op |-> "inbox", arg |-> req]
        /\ nonceLog' = IF out.seen = seenNonces THEN nonceLog
                       ELSE nonceLog \cup {[requester_id |-> req.requester_id,
                                            nonce |-> req.nonce, at |-> now]}
        /\ inflight' = inflight \ {req}
        /\ UNCHANGED <<now, nonceFile, nextSweep, receipts>>
        /\ UNCHANGED clientVars

\* --------------------------------------------------- GET /tasks/:id/status
StatusResponse(store, id) ==
    LET found == loadTask(store, id)
    IN  IF found = << >>
        THEN Response("status", 404, ErrorBody("not_found"))
        ELSE LET task == found[1]
             IN  Response("status", 200,
                     [error |-> "none",
                      task_id |-> task.task_id,
                      status |-> task.status,
                      task_type |-> task.task_type,
                      created |-> task.created,
                      updated |-> task.updated,
                      result |-> IF task.status = "completed" THEN task.result ELSE Null,
                      receipt |-> task.receipt])

GetStatus(id) ==
    /\ resp' = StatusResponse(tasks, id)
    /\ nops' = nops + 1
    /\ last' = [op |-> "status", arg |-> [id |-> id]]
    /\ UNCHANGED <<now, seenNonces, nonceFile, nextSweep, rateBuckets, tasks, receipts, nonceLog>>
    /\ UNCHANGED bridgeVars

\* ------------------------------------------------ POST /tasks/:id/complete
\* Mutant: the hash is taken over the result the record held before.
BuildReceiptStaleHash(task, result, payment_proof, t) ==
    LET receiptData ==
            [task_id |-> task.task_id,
             requester_id |-> task.requester_id,
             agent_id |-> AgentPublicKey,
             task_type |-> task.task_type,
             completion_timestamp |-> toISOString(t),
             result_hash |-> SHA256Hex(JSONStringify(task.result)),
             payment_proof |-> OrElse(payment_proof, Null)]
    IN  [task_id |-> receiptData.task_id,
         requester_id |-> receiptData.requester_id,
         agent_id |-> receiptData.agent_id,
         task_type |-> receiptData.task_type,
         completion_timestamp |-> receiptData.completion_timestamp,
         result_hash |-> receiptData.result_hash,
         payment_proof |-> receiptData.payment_proof,
         agent_signature |-> signMessage(receiptData, ReceiptFields)]

BuildReceipt(task, result, payment_proof, t) ==
    LET receiptData ==
            [task_id |-> task.task_id,
             requester_id |-> task.requester_id,
             agent_id |-> AgentPublicKey,
             task_type |-> task.task_type,
             completion_timestamp |-> toISOString(t),
             result_hash |-> SHA256Hex(JSONStringify(result)),
             payment_proof |-> OrElse(payment_proof, Null)]
    IN  [task_id |-> receiptData.task_id,
         requester_id |-> receiptData.requester_id,
         agent_id |-> receiptData.agent_id,
         task_type |-> receiptData.task_type,
         completion_timestamp |-> receiptData.completion_timestamp,
         result_hash |-> receiptData.result_hash,
         payment_proof |-> receiptData.payment_proof,
         agent_signature |-> signMessage(receiptData, ReceiptFields)]

\* Mutant: a standalone receipt that exists is not written again.
CompleteOutcomeKeepsFirstReceipt(id, result, payment_proof, t, store, rstore) ==
    LET found == loadTask(store, id)
    IN  IF found = << >>
        THEN [resp |-> Response("complete", 404, ErrorBody("not_found")),
              tasks |-> store, receipts |-> rstore]
        ELSE IF Falsy(result)
        THEN [resp |-> Response("complete", 400, ErrorBody("missing_result")),
              tasks |-> store, receipts |-> rstore]
        ELSE LET receipt == BuildReceipt(found[1], result, payment_proof, t)
                 task == [found[1] EXCEPT !.status = "completed",
                                          !.result = result,
                                          !.receipt = <<receipt>>,
                                          !.updated = toISOString(t)]
             IN  [resp |-> Response("complete", 200,
                              [error |-> "none", status |-> "completed",
                               task_id |-> task.task_id, receipt |-> receipt]),
                  tasks |-> saveTask(store, task),
                  receipts |-> IF id \in DOMAIN rstore THEN rstore
                               ELSE saveReceipt(rstore, receipt)]

CompleteOutcome(id, result, payment_proof, t, store, rstore) ==
    LET found == loadTask(store, id)
    IN  IF found = << >>
        THEN [resp |-> Response("complete", 404, ErrorBody("not_found")),
              tasks |-> store, receipts |-> rstore]
        ELSE IF Falsy(result)
        THEN [resp |-> Response("complete", 400, ErrorBody("missing_result")),
              tasks |-> store, receipts |-> rstore]
        ELSE LET receipt == BuildReceipt(found[1], result, payment_proof, t)
                 task == [found[1] EXCEPT !.status = "completed",
                                          !.result = result,
                                          !.receipt = <<receipt>>,
                                          !.updated = toISOString(t)]
             IN  [resp |-> Response("complete", 200,
                              [error |-> "none", status |-> "completed",
                               task_id |-> task.task_id, receipt |-> receipt]),
                  tasks |-> saveTask(store, task),
                  receipts |-> saveReceipt(rstore, receipt)]

PostComplete(id, result, payment_proof) ==
    LET out == CompleteOutcome(id, result, payment_proof, now, tasks, receipts)
    IN  /\ resp' = out.resp
        /\ tasks' = out.tasks
        /\ receipts' = out.receipts
        /\ nops' = nops + 1
        /\ last' = [op |-> "complete",
                    arg |-> [id |-> id, result |-> result, payment_proof |-> payment_proof]]
        /\ UNCHANGED <<now, seenNonces, nonceFile, nextSweep, rateBuckets, nonceLog>>
        /\ UNCHANGED bridgeVars

\* -------------------------------------------------- POST /tasks/:id/reject
\* Mutant: the rejection drops the receipt embedded in the record.
RejectOutcomeClearsReceipt(id, reason, t, store) ==
    LET found == loadTask(store, id)
    IN  IF found = << >>
        THEN [resp |-> Response("reject", 404, ErrorBody("not_found")),
              tasks |-> store]
        ELSE LET task == [found[1] EXCEPT !.status = "rejected",
                                          !.updated = toISOString(t),
                                          !.receipt = << >>,
                                          !.rejection_reason =
                                              OrElse(reason, "No reason given")]
             IN  [resp |-> Response("reject", 200,
                              [error |-> "none", status |-> "rejected",
                               task_id |-> task.task_id,
                               reason |-> task.rejection_reason]),
                  tasks |-> saveTask(store, task)]

\* Mutant: the reason is recorded as it came, without the default.
RejectOutcomeNoDefault(id, reason, t, store) ==
    LET found == loadTask(store, id)
    IN  IF found = << >>
        THEN [resp |-> Response("reject", 404, ErrorBody("not_found")),
              tasks |-> store]
        ELSE LET task == [found[1] EXCEPT !.status = "rejected",
                                          !.updated = toISOString(t),
                                          !.rejection_reason = reason]
             IN  [resp |-> Response("reject", 200,
                              [error |-> "none", status |-> "rejected",
                               task_id |-> task.task_id,
                               reason |-> task.rejection_reason]),
                  tasks |-> saveTask(store, task)]

RejectOutcome(id, reason, t, store) ==
    LET found == loadTask(store, id)
    IN  IF found = << >>
        THEN [resp |-> Response("reject", 404, ErrorBody("not_found")),
              tasks |-> store]
        ELSE LET task == [found[1] EXCEPT !.status = "rejected",
                                          !.updated = toISOString(t),
                                          !.rejection_reason =
                                              OrElse(reason, "No reason given")]
             IN  [resp |-> Response("reject", 200,
                              [error |-> "none", status |-> "rejected",
                               task_id |-> task.task_id,
                               reason |-> task.rejection_reason]),
                  tasks |-> saveTask(store, task)]

PostReject(id, reason) ==
    LET out == RejectOutcome(id, reason, now, tasks)
    IN  /\ resp' = out.resp
        /\ tasks' = out.tasks
        /\ nops' = nops + 1
        /\ last' = [op |-> "reject", arg |-> [id |-> id, reason |-> reason]]
        /\ UNCHANGED <<now, seenNonces, nonceFile, nextSweep, rateBuckets, receipts, nonceLog>>
        /\ UNCHANGED bridgeVars

\* ------------------------------------------------- GET /receipts, GET /tasks
\* fs.readdirSync: the files of a store directory, in directory order
FileOrder == <<"t1", "t2">>
ReadDir(store) == SelectSeq(FileOrder, LAMBDA id : id \in DOMAIN store)

\* Array.prototype.sort with the comparator new Date(b[field]) - new Date(a[field])
\* (stable): descending by date, elements with equal dates in their old order.
RECURSIVE SortByDateDesc(_, _)
SortByDateDesc(seq, field) ==
    IF seq = << >> THEN << >>
    ELSE LET x == Head(seq)
             rest == SortByDateDesc(Tail(seq), field)
             n == Cardinality({i \in DOMAIN rest : rest[i][field].ms > x[field].ms})
         IN  SubSeq(rest, 1, n) \o <<x>> \o SubSeq(rest, n + 1, Len(rest))

\* parseInt of the limit query parameters used here
ParseInt(str) == CASE str = "0" -> 0 [] str = "1" -> 1 [] str = "2" -> 2

\* array.slice(0, n) for n >= 0
ArraySlice(seq, n) == SubSeq(seq, 1, IF n < Len(seq) THEN n ELSE Len(seq))

\* Mutant: the receipts are returned in directory order.
ReceiptsResponseUnsorted(rstore, agent_id, task_type, limit) ==
    LET files == ReadDir(rstore)
        all == [i \in DOMAIN files |-> rstore[files[i]]]
        byAgent == IF Falsy(agent_id) THEN all
                   ELSE SelectSeq(all, LAMBDA r : r.agent_id = agent_id)
        byType == IF Falsy(task_type) THEN byAgent
                  ELSE SelectSeq(byAgent, LAMBDA r : r.task_type = task_type)
        cut == IF Falsy(limit) THEN byType ELSE ArraySlice(byType, ParseInt(limit))
    IN  Response("receipts", 200,
            [error |-> "none", agent_id |-> AgentPublicKey,
             total |-> Len(cut), receipts |-> cut])

ReceiptsResponse(rstore, agent_id, task_type, limit) ==
    LET files == ReadDir(rstore)
        all == [i \in DOMAIN files |-> rstore[files[i]]]
        byAgent == IF Falsy(agent_id) THEN all
                   ELSE SelectSeq(all, LAMBDA r : r.agent_id = agent_id)
        byType == IF Falsy(task_type) THEN byAgent
                  ELSE SelectSeq(byAgent, LAMBDA r : r.task_type = task_type)
        sorted == SortByDateDesc(byType, "completion_timestamp")
        cut == IF Falsy(limit) THEN sorted ELSE ArraySlice(sorted, ParseInt(limit))
    IN  Response("receipts", 200,
            [error |-> "none", agent_id |-> AgentPublicKey,
             total |-> Len(cut), receipts |-> cut])

GetReceipts(agent_id, task_type, limit) ==
    /\ resp' = ReceiptsResponse(receipts, agent_id, task_type, limit)
    /\ nops' = nops + 1
    /\ last' = [op |-> "receipts",
                arg |-> [agent_id |-> agent_id, task_type |-> task_type, limit |-> limit]]
    /\ UNCHANGED <<now, seenNonces, nonceFile, nextSweep, rateBuckets, tasks, receipts, nonceLog>>
    /\ UNCHANGED bridgeVars

\* Descriptions as strings with a length: a description of 201 characters and
\* its first 200 characters stand for every string longer than the preview.
LongDescription == "description of 201 characters"
LongDescriptionPrefix == "description of 201 characters, first 200"
StrLen(str) ==
    CASE str = "" -> 0
      [] str = "d1" -> 2
      [] str = LongDescriptionPrefix -> DESCRIPTION_PREVIEW
      [] str = LongDescription -> DESCRIPTION_PREVIEW + 1

\* description.slice(0, 200)
StringSlice(str) ==
    IF StrLen(str) <= DESCRIPTION_PREVIEW THEN str ELSE LongDescriptionPrefix

\* Mutant: the list entry carries the whole description.
TaskSummaryFullDescription(t) ==
    [task_id |-> t.task_id,
     requester_id |-> t.requester_id,
     task_type |-> t.task_type,
     description |-> t.description,
     status |-> t.status,
     created |-> t.created,
     updated |-> t.updated]

TaskSummary(t) ==
    [task_id |-> t.task_id,
     requester_id |-> t.requester_id,
     task_type |-> t.task_type,
     description |-> StringSlice(t.description),
     status |-> t.status,
     created |-> t.created,
     updated |-> t.updated]

TasksResponse(store, status, limit) ==
    LET files == ReadDir(store)
        all == [i \in DOMAIN files |-> TaskSummary(store[files[i]])]
        byStatus == IF Falsy(status) THEN all
                    ELSE SelectSeq(all, LAMBDA t : t.status = status)
        sorted == SortByDateDesc(byStatus, "created")
        cut == IF Falsy(limit) THEN sorted ELSE ArraySlice(sorted, ParseInt(limit))
    IN  Response("tasks", 200,
            [error |-> "none", total |-> Len(cut), tasks |-> cut])

GetTasks(status, limit) ==
    /\ resp' = TasksResponse(tasks, status, limit)
    /\ nops' = nops + 1
    /\ last' = [op |-> "tasks", arg |-> [status |-> status, limit |-> limit]]
    /\ UNCHANGED <<now, seenNonces, nonceFile, nextSweep, rateBuckets, tasks, receipts, nonceLog>>
    /\ UNCHANGED bridgeVars

\* ------------------------------------------------------- Nostr publishing
RECEIPT_RELAYS == <<"wss://relay.damus.io", "wss://nos.lol", "wss://relay.primal.net">>
MANIFEST_RELAYS ==
    <<"wss://relay.damus.io", "wss://nos.lol", "wss://relay.nostr.band",
      "wss://relay.primal.net">>

\* What a relay does with one attempt: Relay.connect rejects, relay.publish
\* rejects, or both resolve.
RelayOutcomes == {"ok", "connect_fails", "publish_fails"}
RelaySet(relays) == {relays[i] : i \in DOMAIN relays}
OutcomesOn(relays) == [RelaySet(relays) -> RelayOutcomes]

NostrSecretKey == <<"sk", "npubAgent">>
NostrPublicKey == "npubAgent"

\* finalizeEvent: the template with the public key, the event id (the hash of
\* the serialized event) and the signature over the id
finalizeEvent(t, sk) ==
    LET id == SHA256Hex(<<0, sk[2], t.created_at, t.kind, t.tags, t.content>>)
    IN  [kind |-> t.kind, created_at |-> t.created_at, tags |-> t.tags,
         content |-> t.content, pubkey |-> sk[2], id |-> id,
         sig |-> Detached(id, sk)]

\* Mutant: the loop ends at the first relay that fails.
PublishLoopAbortOnFailure(relays, outcome) ==
    LET failed == {i \in DOMAIN relays : outcome[relays[i]] # "ok"}
        upto == IF failed = {} THEN Len(relays)
                ELSE CHOOSE i \in failed : \A j \in failed : i <= j
    IN  [connects |-> SubSeq(relays, 1, upto),
         publishes |-> SelectSeq(SubSeq(relays, 1, upto),
                                 LAMBDA r : outcome[r] # "connect_fails"),
         success |-> Cardinality({i \in 1..upto : outcome[relays[i]] = "ok"})]

\* for (const relayUrl of RELAYS) { try { connect; publish; close; success++ }
\* catch { log } }: the relays connected to, the relays published to, and the
\* success count, in the order of the loop.
PublishLoop(relays, outcome) ==
    [connects |-> relays,
     publishes |-> SelectSeq(relays, LAMBDA r : outcome[r] # "connect_fails"),
     success |-> Cardinality({i \in DOMAIN relays : outcome[relays[i]] = "ok"})]

\* Mutant: the replaceable-event key is made from the result hash.
ReceiptEventTemplateKeyedByHash(receipt) ==
    [kind |-> AIP_RECEIPT_KIND,
     created_at |-> receipt.completion_timestamp.ms \div 1000,
     tags |-> <<<<"d", <<"aip-receipt-", receipt.result_hash>>>>,
                <<"t", "aip-receipt">>,
                <<"t", receipt.task_type>>,
                <<"task_id", receipt.task_id>>,
                <<"result_hash", receipt.result_hash>>,
                <<"payment_proof", OrElse(receipt.payment_proof, "none")>>>>,
     content |-> JSONStringify(receipt)]

\* publishReceipt: eventTemplate
ReceiptEventTemplate(receipt) ==
    [kind |-> AIP_RECEIPT_KIND,
     created_at |-> receipt.completion_timestamp.ms \div 1000,
     tags |-> <<<<"d", <<"aip-receipt-", receipt.task_id>>>>,
                <<"t", "aip-receipt">>,
                <<"t", receipt.task_type>>,
                <<"task_id", receipt.task_id>>,
                <<"result_hash", receipt.result_hash>>,
                <<"payment_proof", OrElse(receipt.payment_proof, "none")>>>>,
     content |-> JSONStringify(receipt)]

\* node nostr-receipts.js --publish <task_id>: the receipt file is read, the
\* event finalized and offered to every relay.
PublishReceipt(id, outcome) ==
    /\ id \in DOMAIN receipts
    /\ LET event == finalizeEvent(ReceiptEventTemplate(receipts[id]), NostrSecretKey)
           loop == PublishLoop(RECEIPT_RELAYS, outcome)
       IN  /\ resp' = Response("publishReceipt", 0,
                          [error |-> "none", event |-> event,
                           connects |-> loop.connects,
                           publishes |-> loop.publishes,
                           success |-> loop.success,
                           relays |-> Len(RECEIPT_RELAYS)])
           /\ published' = Append(published, [receipt |-> receipts[id], event |-> event])
    /\ nops' = nops + 1
    /\ last' = [op |-> "publishReceipt", arg |-> [id |-> id, outcome |-> outcome]]
    /\ UNCHANGED <<now, seenNonces, nonceFile, nextSweep, rateBuckets, tasks, receipts,
                   nonceLog, pendingPayments, inflight, picoclawVars>>

\* publishManifest: eventTemplate (the capability tags and the inbox tag; the
\* manifest's other fields are its content)
ManifestEventTemplate(t) ==
    [kind |-> AIP_EVENT_KIND,
     created_at |-> t \div 1000,
     tags |-> <<<<"d", "aip-manifest">>, <<"t", "agent-mesh">>, <<"t", "aip">>,
                <<"caps", ManifestCapabilities>>>>,
     content |-> JSONStringify(ManifestCapabilities)]

PublishManifest(outcome) ==
    /\ LET event == finalizeEvent(ManifestEventTemplate(now), NostrSecretKey)
           loop == PublishLoop(MANIFEST_RELAYS, outcome)
       IN  resp' = Response("publishManifest", 0,
                      [error |-> "none", event |-> event,
                       connects |-> loop.connects,
                       publishes |-> loop.publishes,
                       success |-> loop.success,
                       relays |-> Len(MANIFEST_RELAYS)])
    /\ nops' = nops + 1
    /\ last' = [op |-> "publishManifest", arg |-> [id |-> "manifest", outcome |-> outcome]]
    /\ UNCHANGED <<now, seenNonces, nonceFile, nextSweep, rateBuckets, tasks, receipts,
                   nonceLog, pendingPayments, published, inflight, picoclawVars>>

\* ------------------------------------------------------- agent discovery
\* A manifest event as a relay hands it over: the publisher's key, the publish
\* time in seconds, and the content, which JSON.parse accepts or not.
ManifestEvent(pubkey, created_at, json) ==
    [pubkey |-> pubkey, created_at |-> created_at,
     content |-> [json |-> json, agent_name |-> <<"agent", pubkey>>,
                  inbox_url |-> <<"inbox", pubkey, created_at>>]]

\* nip19.npubEncode: the bech32 form of the key
npubEncode(pubkey) == <<"npub", pubkey>>

\* What one relay answers to the subscription: Relay.connect rejects, or the
\* events collected until end-of-stored-events, in the order received.
RelayAnswers ==
    {[connect |-> FALSE, events |-> << >>],
     [connect |-> TRUE, events |-> << >>],
     [connect |-> TRUE, events |-> <<ManifestEvent("pkA", 1, TRUE)>>],
     [connect |-> TRUE, events |-> <<ManifestEvent("pkA", 2, TRUE)>>],
     [connect |-> TRUE, events |-> <<ManifestEvent("pkB", 1, TRUE)>>],
     [connect |-> TRUE, events |-> <<ManifestEvent("pkA", 2, TRUE),
                                     ManifestEvent("pkA", 1, TRUE)>>],
     [connect |-> TRUE, events |-> <<ManifestEvent("pkA", 3, FALSE)>>]}

\* The inner loop of one relay: an entry for every event whose content parses.
AgentEntries(relayUrl, events) ==
    LET parsed == SelectSeq(events, LAMBDA ev : ev.content.json)
    IN  [i \in DOMAIN parsed |->
            [npub |-> npubEncode(parsed[i].pubkey),
             name |-> parsed[i].content.agent_name,
             inbox_url |-> parsed[i].content.inbox_url,
             relay |-> relayUrl,
             updated |-> IsoString(parsed[i].created_at * 1000)]]

\* The outer loop: agents.push for every relay in turn; a relay whose connect
\* rejects adds nothing.
RECURSIVE CollectAgents(_, _)
CollectAgents(relays, answers) ==
    IF relays = << >> THEN << >>
    ELSE LET url == Head(relays)
         IN  (IF answers[url].connect THEN AgentEntries(url, answers[url].events)
              ELSE << >>) \o CollectAgents(Tail(relays), answers)

\* Mutant: the entry kept for a key is the one with the greatest publish time.
MapValuesKeepNewest(agents) ==
    LET firsts == SelectSeq([i \in DOMAIN agents |-> i],
                     LAMBDA i : \A j \in 1..(i - 1) : agents[j].npub # agents[i].npub)
        newest(k) == CHOOSE i \in DOMAIN agents :
                        /\ agents[i].npub = k
                        /\ \A j \in DOMAIN agents :
                              agents[j].npub = k =>
                                 \/ agents[j].updated.ms < agents[i].updated.ms
                                 \/ agents[j].updated.ms = agents[i].updated.ms /\ j <= i
    IN  [n \in DOMAIN firsts |-> agents[newest(agents[firsts[n]].npub)]]

\* [...new Map(agents.map(a => [a.npub, a])).values()]: a Map built from pairs
\* keeps a key at the position of its first pair and with the value of its
\* last pair.
MapValues(agents) ==
    LET firsts == SelectSeq([i \in DOMAIN agents |-> i],
                     LAMBDA i : \A j \in 1..(i - 1) : agents[j].npub # agents[i].npub)
        lastOf(k) == CHOOSE i \in DOMAIN agents :
                        /\ agents[i].npub = k
                        /\ \A j \in DOMAIN agents : agents[j].npub = k => j <= i
    IN  [n \in DOMAIN firsts |-> agents[lastOf(agents[firsts[n]].npub)]]

\* node nostr-publish.js --discover
DiscoverAgents(answers) ==
    /\ resp' = Response("discoverAgents", 0,
                  [error |-> "none",
                   agents |-> MapValues(CollectAgents(MANIFEST_RELAYS, answers))])
    /\ nops' = nops + 1
    /\ last' = [op |-> "discoverAgents", arg |-> [id |-> "discover", answers |-> answers]]
    /\ UNCHANGED <<now, seenNonces, nonceFile, nextSweep, rateBuckets, tasks, receipts,
                   nonceLog, pendingPayments, published, inflight, picoclawVars>>

\* ------------------------------------------------------- task payments
\* What the payment service does with one createInvoice call: the request
\* throws (no token, a network error, a non-2xx answer), or the invoice comes
\* back as {hash, text}.
InvoiceAnswers ==
    {[ok |-> FALSE, id |-> Undefined, hash |-> "", text |-> ""],
     [ok |-> TRUE, id |-> Undefined, hash |-> "h1", text |-> "lnbc1"]}

\* Mutant: the payment is recorded before the invoice is asked for.
createTaskPaymentRecordFirst(payments, taskId, amount, description, invoice, t) ==
    IF amount > maxPrice
    THEN [payments |-> payments, calls |-> 0,
          body |-> [error |-> "amount_exceeds_max"]]
    ELSE LET recorded == MapSet(payments, taskId,
                            [invoiceId |-> invoice.id, amount |-> amount,
                             bolt11 |-> OrElse(Undefined, invoice.text),
                             status |-> "pending", createdAt |-> t])
         IN  IF ~invoice.ok
             THEN [payments |-> recorded, calls |-> 1,
                   body |-> [error |-> "invoice_failed"]]
             ELSE [payments |-> recorded, calls |-> 1,
                   body |-> [error |-> "none", taskId |-> taskId, amount |-> amount,
                             bolt11 |-> OrElse(Undefined, invoice.text),
                             invoiceId |-> invoice.id]]

\* L402Bridge.createTaskPayment: the map after the call, the number of calls
\* made to the payment service, and what the caller gets (error names what
\* was thrown).
createTaskPayment(payments, taskId, amount, description, invoice, t) ==
    IF amount > maxPrice
    THEN [payments |-> payments, calls |-> 0,
          body |-> [error |-> "amount_exceeds_max"]]
    ELSE IF ~invoice.ok
    THEN [payments |-> payments, calls |-> 1,
          body |-> [error |-> "invoice_failed"]]
    ELSE [payments |-> MapSet(payments, taskId,
                          [invoiceId |-> invoice.id, amount |-> amount,
                           bolt11 |-> OrElse(Undefined, invoice.text),
                           status |-> "pending", createdAt |-> t]),
          calls |-> 1,
          body |-> [error |-> "none", taskId |-> taskId, amount |-> amount,
                    bolt11 |-> OrElse(Undefined, invoice.text),
                    invoiceId |-> invoice.id]]

\* L402Bridge.checkTaskPayment.  For a recorded payment the call of
\* checkInvoice throws a TypeError before anything is sent: lightning.js
\* exports no checkInvoice, so the name imported from it is undefined.
checkTaskPayment(payments, taskId, t) ==
    IF taskId \notin DOMAIN payments
    THEN [payments |-> payments, calls |-> 0,
          body |-> [error |-> "none", status |-> "not_found"]]
    ELSE [payments |-> payments, calls |-> 0,
          body |-> [error |-> "checkInvoice_is_not_a_function", status |-> Undefined]]

CreateTaskPayment(taskId, amount, description, invoice) ==
    /\ LET out == createTaskPayment(pendingPayments, taskId, amount, description,
                                    invoice, now)
       IN  /\ pendingPayments' = out.payments
           /\ resp' = Response("createTaskPayment", 0, out.body @@ [calls |-> out.calls])
    /\ nops' = nops + 1
    /\ last' = [op |-> "createTaskPayment",
                arg |-> [id |-> taskId, amount |-> amount, invoice |-> invoice]]
    /\ UNCHANGED <<now, seenNonces, nonceFile, nextSweep, rateBuckets, tasks, receipts,
                   nonceLog, published, inflight, picoclawVars>>

CheckTaskPayment(taskId) ==
    /\ LET out == checkTaskPayment(pendingPayments, taskId, now)
       IN  /\ pendingPayments' = out.payments
           /\ resp' = Response("checkTaskPayment", 0, out.body @@ [calls |-> out.calls])
    /\ nops' = nops + 1
    /\ last' = [op |-> "checkTaskPayment", arg |-> [id |-> taskId]]
    /\ UNCHANGED <<now, seenNonces, nonceFile, nextSweep, rateBuckets, tasks, receipts,
                   nonceLog, published, inflight, picoclawVars>>

\* ------------------------------------------------- timers and the process
\* The setInterval callback: prune, then write the surviving set to the file.
Sweep ==
    /\ now >= nextSweep
    /\ seenNonces' = PruneNonces(seenNonces, now)
    /\ nonceFile' = <<seenNonces'>>
    /\ nextSweep' = nextSweep + SWEEP_INTERVAL_MS
    /\ UNCHANGED <<now, rateBuckets, tasks, receipts, resp, nops, last, nonceLog>>
    /\ UNCHANGED bridgeVars

\* Time passes until the interval timer is next due; a due callback runs
\* before the clock moves on.
Tick ==
    /\ now < nextSweep
    /\ now' = nextSweep
    /\ UNCHANGED <<seenNonces, nonceFile, nextSweep, rateBuckets, tasks, receipts,
                   resp, nops, last, nonceLog>>
    /\ UNCHANGED bridgeVars

\* The process stops and is started again: memory is lost, the files stay,
\* the nonce map is reloaded from its file and the timer is armed anew.
Restart ==
    /\ seenNonces' = IF nonceFile = << >> THEN EmptyMap ELSE nonceFile[1]
    /\ rateBuckets' = EmptyMap
    /\ nextSweep' = now + SWEEP_INTERVAL_MS
    /\ UNCHANGED <<now, nonceFile, tasks, receipts, resp, nops, last, nonceLog>>
    /\ UNCHANGED bridgeVars

\* ------------------------------------------- picoclaw-bridge.js: positions
\* setInterval starts the async callback of watch() every POLL_INTERVAL_MS
\* and does not wait for the promise it returns, so an invocation suspended
\* at an await is still running when the next one starts.  A slot holds one
\* invocation: where it is suspended (pc), the rest of the file list it read
\* at its start, the file and message of the fetch it awaits in submitTask,
\* and the rest of the tracking list, the tracking file and its content as
\* read before the fetch it awaits in pollResults.
MaxCallbacks == 2
Slots == 1..MaxCallbacks
IdleCallback ==
    [pc |-> "idle", files |-> << >>, file |-> "", message |-> << >>,
     tfs |-> << >>, tf |-> "", read |-> << >>]

Init ==
    /\ now = 0
    /\ seenNonces = EmptyMap
    /\ nonceFile = << >>
    /\ nextSweep = SWEEP_INTERVAL_MS
    /\ rateBuckets = EmptyMap
    /\ tasks = EmptyMap
    /\ receipts = EmptyMap
    /\ resp = NoResponse
    /\ nops = 0
    /\ last = [op |-> "none", arg |-> [at |-> 0]]
    /\ nonceLog = {}
    /\ pendingPayments = EmptyMap
    /\ published = << >>
    /\ inflight = {}
    /\ taskFiles = EmptyMap
    /\ processed = {}
    /\ processedFile = {}
    /\ tracking = EmptyMap
    /\ callbacks = [slot \in Slots |-> IdleCallback]
    /\ uuids = 0
    /\ submissions = << >>

\* ------------------------------------------------------------------ inputs
TaskIds == {"t1", "t2"}
Requesters == {"pkA", "pkB"}
Nonces == {"n1", "n2"}
TaskTypes == {"research.web", "bogus.type"}
Descriptions == {"d1", ""}
Results == {"r1", "r2", ""}
Reasons == {"spam", "", Undefined}

\* Offsets of a request's timestamp from the server clock: on and just beyond
\* both edges of the replay window.
TimestampOffsets ==
    {0, NONCE_EXPIRY_MS, NONCE_EXPIRY_MS + 1, 0 - NONCE_EXPIRY_MS, 0 - (NONCE_EXPIRY_MS + 1)}

\* How the request's signature was made: by the requester's own key over the
\* request's fields, by another key over them, by the own key over a request
\* with another task_type (or bytes that are no signature at all).
SigKinds == {"own", "other", "tampered"}

Unsigned(task_id, requester_id, task_type, description, nonce, timestamp) ==
    [task_id |-> task_id, requester_id |-> requester_id, task_type |-> task_type,
     description |-> description, params |-> Null, payment_offer |-> Null,
     callback_url |-> Null, deadline |-> Null, nonce |-> nonce,
     timestamp |-> timestamp]

SignatureOf(fields, kind) ==
    CASE kind = "own" ->
           Detached(Stringify(fields, SignedFields), SecretKeyOf(fields.requester_id))
      [] kind = "other" ->
           Detached(Stringify(fields, SignedFields), SecretKeyOf("pkMallory"))
      [] kind = "tampered" ->
           Detached(Stringify([fields EXCEPT !.task_type = "code.review"], SignedFields),
                    SecretKeyOf(fields.requester_id))
      [] OTHER -> GarbageSignature

WithSignature(fields, signature) ==
    [k \in (DOMAIN fields) \cup {"signature"} |->
        IF k = "signature" THEN signature ELSE fields[k]]

Request(task_id, requester_id, task_type, description, nonce, timestamp, kind) ==
    LET fields == Unsigned(task_id, requester_id, task_type, description, nonce, timestamp)
    IN  WithSignature(fields, SignatureOf(fields, kind))

\* A request of a client that passes opts.callback_url
CallbackUrls == {Null, "http://requester/callback"}
CallbackRequest(task_id, requester_id, task_type, description, nonce, timestamp, callback_url) ==
    LET fields == [Unsigned(task_id, requester_id, task_type, description,
                            nonce, timestamp)
                      EXCEPT !.callback_url = OrElse(callback_url, Null)]
    IN  WithSignature(fields, SignatureOf(fields, "own"))

\* The HTTP requests the server has sent to callback URLs.  POST
\* /tasks/:id/complete leaves the notification as a TODO and no other code of
\* the server sends any: the set stays empty.
CallbackPosts == {}

\* ------------------------------------------------- clients on the wire
\* Values a caller may pass for an optional field, written as JavaScript
\* writes them: nothing, null, an object, an object with a member that is
\* undefined, a number that is NaN.
ObjectWithUndefinedMember == "{a:undefined}"
EmptyObject == "{}"
NumberNaN == "NaN"
DefaultPaymentOffer == "{amount:1000,currency:sats,type:lightning}"

\* The value JSON.stringify writes for a value and JSON.parse reads back: a
\* member that is undefined is left out, NaN becomes null.
JSONValue(v) ==
    IF v = ObjectWithUndefinedMember THEN EmptyObject
    ELSE IF v = NumberNaN THEN Null
    ELSE v

\* JSON.stringify(message) in the sender, on the fields in the order the
\* object literal lists them
sendTaskFields ==
    <<"task_id", "requester_id", "task_type", "description", "params",
      "payment_offer", "callback_url", "deadline", "nonce", "timestamp">>
submitTaskFields ==
    <<"task_id", "requester_id", "task_type", "description", "params",
      "payment_offer", "callback_url", "deadline", "nonce", "timestamp">>

StringifyMessage(m, keys) ==
    Stringify([k \in DOMAIN m |-> IF k \in OptionalFields THEN JSONValue(m[k]) ELSE m[k]],
              keys)

\* fetch(inboxUrl, {body: JSON.stringify(message)}) and express.json() on the
\* other side: what req.body holds
HttpBody(message) ==
    [k \in DOMAIN message |->
        IF k \in OptionalFields THEN JSONValue(message[k]) ELSE message[k]]

\* client.js sendTask: the message and its signature
sendTask(taskType, description, opts, publicKey, taskId, nonce, t) ==
    LET message == [task_id |-> taskId,
                    requester_id |-> publicKey,
                    task_type |-> taskType,
                    description |-> description,
                    params |-> OrElse(opts.params, Null),
                    payment_offer |-> OrElse(opts.payment_offer, DefaultPaymentOffer),
                    callback_url |-> OrElse(opts.callback_url, Null),
                    deadline |-> OrElse(opts.deadline, Null),
                    nonce |-> nonce,
                    timestamp |-> toISOString(t)]
    IN  WithSignature(message,
                      Detached(StringifyMessage(message, sendTaskFields),
                               SecretKeyOf(publicKey)))

\* picoclaw-bridge.js submitTask: the message built from a dropped file and
\* its signature
submitTaskMessage(raw, publicKey, taskId, nonce, t) ==
    LET message == [task_id |-> taskId,
                    requester_id |-> publicKey,
                    task_type |-> raw.task_type,
                    description |-> raw.description,
                    params |-> OrElse(raw.params, Null),
                    payment_offer |-> OrElse(raw.payment_offer, DefaultPaymentOffer),
                    callback_url |-> Null,
                    deadline |-> OrElse(raw.deadline, Null),
                    nonce |-> nonce,
                    timestamp |-> toISOString(t)]
    IN  WithSignature(message,
                      Detached(StringifyMessage(message, submitTaskFields),
                               SecretKeyOf(publicKey)))

\* What callers pass: opts of sendTask and the content of a dropped file
ClientOpts ==
    [params : {Undefined, "{depth:2}", ObjectWithUndefinedMember},
     payment_offer : {Undefined, "{amount:5,currency:sats,type:lightning}"},
     callback_url : {Undefined, "http://requester/callback"},
     deadline : {Undefined, "2026-12-01T00:00:00Z", NumberNaN}]
RawFiles ==
    [task_type : {"research.web"},
     description : {"d1"},
     params : {Undefined, "{depth:2}"},
     payment_offer : {Undefined, "{amount:5,currency:sats,type:lightning}"},
     deadline : {Undefined, "2026-12-01T00:00:00Z"}]

\* The requests sendTask and submitTask put on the wire at time t
ClientMessages(t) ==
    {HttpBody(sendTask("research.web", "d1", opts, "pkA", "t1", "n1", t)) :
        opts \in ClientOpts}
BridgeMessages(t) ==
    {HttpBody(submitTaskMessage(raw, "pkA", "t1", "n1", t)) :
        raw \in RawFiles}

\* Other values for each signed field
TamperValues(f, t) ==
    CASE f = "task_id" -> {"t2"}
      [] f = "requester_id" -> {"pkB"}
      [] f = "task_type" -> {"code.review"}
      [] f = "description" -> {"d2"}
      [] f = "params" -> {Undefined, Null, "{depth:3}"}
      [] f = "payment_offer" -> {Undefined, Null, "{amount:1,currency:sats,type:lightning}"}
      [] f = "callback_url" -> {Undefined, Null, "http://mallory/callback"}
      [] f = "deadline" -> {Undefined, Null, "2027-01-01T00:00:00Z"}
      [] f = "nonce" -> {"n3"}
      [] OTHER -> {IsoString(t + 1000)}

\* A request of a client with one signed field changed on the way
Tampered(m, f, x) == [m EXCEPT ![f] = x]


\* ----------------------------------------------------------- specification
\* The handlers as steps, with the inputs each specification draws.
InboxStep(ids, requesters, types, descriptions, nonces, offsets, garbage, kinds) ==
    \E id \in ids, rq \in requesters, ty \in types, de \in descriptions,
       no \in nonces, ts \in {IsoString(now + d) : d \in offsets} \cup garbage,
       k \in kinds :
        PostInbox(Request(id, rq, ty, de, no, ts, k))

\* Lifecycle: well-formed submissions, then status, complete and reject.  Task
\* t1 is submitted by either requester under either nonce; the second task t2
\* by pkB alone, so that the stores hold two records.
Next ==
    \/ /\ nops < MaxOps
       /\ InboxStep({"t1"}, Requesters, {"research.web"}, {"d1"}, Nonces, {0}, {}, {"own"})
    \/ /\ nops < MaxOps
       /\ InboxStep({"t2"}, {"pkB"}, {"research.web"}, {"d1"}, {"n2"}, {0}, {}, {"own"})
    \/ \E id \in TaskIds : nops < MaxOps /\ GetStatus(id)
    \/ \E result \in Results : nops < MaxOps /\ PostComplete("t1", result, Null)
    \/ nops < MaxOps /\ PostComplete("t2", "r1", Null)
    \/ \E reason \in Reasons : nops < MaxOps /\ PostReject("t1", reason)
    \/ nops < MaxOps /\ PostReject("t2", "spam")
    \/ Sweep
    \/ now < MaxTicks * SWEEP_INTERVAL_MS /\ Tick

Spec == Init /\ [][Next]_vars

\* Validation: one task id and one requester, every combination of a present or
\* empty description, a supported or unsupported task_type, two nonces, the
\* timestamps around both edges of the window or no date at all, and the ways a
\* signature can be made; a status read may follow the last submission, and
\* the process may stop and start again.
NextInbox ==
    \/ /\ nops < MaxOpsInbox
       /\ InboxStep({"t1"}, {"pkA"}, TaskTypes, Descriptions, Nonces,
                    TimestampOffsets, {GarbageString}, SigKinds)
    \/ nops <= MaxOpsInbox /\ GetStatus("t1")
    \/ Sweep
    \/ now < MaxTicks * SWEEP_INTERVAL_MS /\ Tick
    \/ Restart

SpecInbox == Init /\ [][NextInbox]_vars

\* One server run over more than twice the replay window: submissions that
\* differ in requester and timestamp, and the sweep.
NextRun ==
    \/ /\ nops < MaxOpsRun
       /\ InboxStep({"t1"}, Requesters, {"research.web"}, {"d1"}, {"n1"},
                    {0}, {GarbageString}, {"own"})
    \/ Sweep
    \/ now < MaxTicksRun * SWEEP_INTERVAL_MS /\ Tick

SpecRun == Init /\ [][NextRun]_vars

\* Rate limiting: enough submissions to fill a requester's bucket, over a full
\* rate window.  pkA submits with a fresh or a used nonce; pkB submits once
\* beside it.
NextRate ==
    \/ /\ nops < MaxOpsRate
       /\ InboxStep({"t1"}, {"pkA"}, {"research.web"}, {"d1"}, Nonces,
                    {0}, {}, {"own"})
    \/ /\ nops < MaxOpsRate
       /\ "pkB" \notin DOMAIN rateBuckets
       /\ InboxStep({"t1"}, {"pkB"}, {"research.web"}, {"d1"}, {"n1"},
                    {0}, {}, {"own"})
    \/ Sweep
    \/ now < MaxTicksRate * SWEEP_INTERVAL_MS /\ Tick

SpecRate == Init /\ [][NextRate]_vars

\* The bucket of one requester: submissions with and without a description,
\* enough of them to fill the bucket, over a full rate window.
NextBucket ==
    \/ /\ nops < MaxOpsRate
       /\ InboxStep({"t1"}, {"pkA"}, {"research.web"}, Descriptions, {"n1"},
                    {0}, {}, {"own"})
    \/ Sweep
    \/ now < MaxTicksRate * SWEEP_INTERVAL_MS /\ Tick

SpecBucket == Init /\ [][NextBucket]_vars

\* The list views: two tasks of the same or of different types, one with a
\* description longer than the preview, each submitted once and completed at
\* most once at either of two times, and the two queries with their filters
\* and limits; a query is followed by a change before the next query.
Limits == {Undefined, "0", "1", "2"}
AgentFilters == {Undefined, AgentPublicKey, "pkOther"}
TypeFilters == {Undefined, "research.web", "code.review"}
StatusFilters == {Undefined, "pending", "completed"}

NextList ==
    \/ /\ nops < MaxOpsList
       /\ "t1" \notin DOMAIN tasks
       /\ InboxStep({"t1"}, {"pkA"}, {"research.web"}, {"d1", LongDescription},
                    {"n1"}, {0}, {}, {"own"})
    \/ /\ nops < MaxOpsList
       /\ "t2" \notin DOMAIN tasks
       /\ InboxStep({"t2"}, {"pkB"}, {"research.web", "code.review"}, {"d1"},
                    {"n2"}, {0}, {}, {"own"})
    \/ \E id \in TaskIds :
          /\ nops < MaxOpsList
          /\ id \in DOMAIN tasks
          /\ tasks[id].status = "pending"
          /\ PostComplete(id, "r1", Null)
    \/ \E a \in AgentFilters, ty \in TypeFilters, l \in Limits :
          /\ nops <= MaxOpsList
          /\ last.op \notin {"receipts", "tasks"}
          /\ GetReceipts(a, ty, l)
    \/ \E st \in StatusFilters, l \in Limits :
          /\ nops <= MaxOpsList
          /\ last.op \notin {"receipts", "tasks"}
          /\ GetTasks(st, l)
    \/ Sweep
    \/ now < MaxTicks * SWEEP_INTERVAL_MS /\ Tick

SpecList == Init /\ [][NextList]_vars

\* Completion of a task submitted with or without a callback_url.  The server
\* handles every request it is sent and its timer keeps firing.
NextCallback ==
    \/ \E rq \in Requesters, cb \in CallbackUrls :
          /\ nops < MaxOps
          /\ PostInbox(CallbackRequest("t1", rq, "research.web", "d1", "n1",
                                       IsoString(now), cb))
    \/ \E result \in Results : nops < MaxOps /\ PostComplete("t1", result, Null)
    \/ nops < MaxOps /\ GetStatus("t1")
    \/ Sweep
    \/ now < MaxTicks * SWEEP_INTERVAL_MS /\ Tick

SpecCallback == Init /\ [][NextCallback]_vars /\ WF_vars(NextCallback)

\* Publishing to the relays: the receipt of a completed task and the
\* manifest, against every combination of relay outcomes.
NextNostr ==
    \/ /\ nops < MaxOpsNostr
       /\ "t1" \notin DOMAIN tasks
       /\ InboxStep({"t1"}, {"pkA"}, {"research.web"}, {"d1"}, {"n1"}, {0}, {}, {"own"})
    \/ /\ nops < MaxOpsNostr
       /\ "t1" \in DOMAIN tasks
       /\ tasks["t1"].status = "pending"
       /\ PostComplete("t1", "r1", Null)
    \/ \E outcome \in OutcomesOn(RECEIPT_RELAYS) :
          nops < MaxOpsNostr /\ PublishReceipt("t1", outcome)
    \/ \E outcome \in OutcomesOn(MANIFEST_RELAYS) :
          /\ nops < MaxOpsNostr
          /\ last.op # "publishManifest"
          /\ PublishManifest(outcome)
    \/ Sweep
    \/ now < MaxTicks * SWEEP_INTERVAL_MS /\ Tick

SpecNostr == Init /\ [][NextNostr]_vars

\* Publishing again: one task, submitted once and completed with one result or
\* with another after it, its receipt published any number of times to relays
\* that all take it or all refuse the connection.
NextRepublish ==
    \/ /\ nops < MaxOpsRepublish
       /\ "t1" \notin DOMAIN tasks
       /\ InboxStep({"t1"}, {"pkA"}, {"research.web"}, {"d1"}, {"n1"}, {0}, {}, {"own"})
    \/ \E result \in {"r1", "r2"} :
          /\ nops < MaxOpsRepublish
          /\ "t1" \in DOMAIN tasks
          /\ tasks["t1"].result # result
          /\ PostComplete("t1", result, Null)
    \/ \E o \in {"ok", "connect_fails"} :
          /\ nops < MaxOpsRepublish
          /\ PublishReceipt("t1", [r \in RelaySet(RECEIPT_RELAYS) |-> o])
    \/ Sweep
    \/ now < MaxTicks * SWEEP_INTERVAL_MS /\ Tick

SpecRepublish == Init /\ [][NextRepublish]_vars

\* Discovery against every combination of relay answers.
NextDiscover ==
    \/ \E answers \in [RelaySet(MANIFEST_RELAYS) -> RelayAnswers] :
          nops < MaxOpsDiscover /\ DiscoverAgents(answers)
    \/ Sweep
    \/ now < MaxTicks * SWEEP_INTERVAL_MS /\ Tick

SpecDiscover == Init /\ [][NextDiscover]_vars

\* Payments beside the task lifecycle: task t1 is submitted and completed,
\* payments are asked for t1 and t2 with amounts on both sides of maxPrice and
\* a payment service that answers or throws, and payments are checked.
Amounts == {100, maxPrice, maxPrice + 1}

NextPayment ==
    \/ /\ nops < MaxOpsPayment
       /\ "t1" \notin DOMAIN tasks
       /\ InboxStep({"t1"}, {"pkA"}, {"research.web"}, {"d1"}, {"n1"}, {0}, {}, {"own"})
    \/ /\ nops < MaxOpsPayment
       /\ "t1" \in DOMAIN tasks
       /\ tasks["t1"].status = "pending"
       /\ PostComplete("t1", "r1", Null)
    \/ \E id \in TaskIds, amount \in Amounts, invoice \in InvoiceAnswers :
          nops < MaxOpsPayment /\ CreateTaskPayment(id, amount, "d1", invoice)
    \/ \E id \in TaskIds :
          /\ nops < MaxOpsPayment
          /\ last.op # "checkTaskPayment"
          /\ CheckTaskPayment(id)
    \/ Sweep
    \/ now < MaxTicks * SWEEP_INTERVAL_MS /\ Tick

SpecPayment == Init /\ [][NextPayment]_vars

\* The order of the checks: one requester sends requests that fail any
\* combination of the checks (no description, a timestamp beyond the window,
\* a nonce sent before, another key's signature, an unsupported task_type),
\* enough of them to exhaust the rate limit; a sweep that is due runs before
\* the next request is handled.
NextOrder ==
    \/ /\ nops < MaxOpsOrder
       /\ now < nextSweep
       /\ InboxStep({"t1"}, {"pkA"}, TaskTypes, Descriptions, {"n1"},
                    {0, NONCE_EXPIRY_MS + 1}, {}, {"own", "other"})
    \/ Sweep
    \/ now < MaxTicks * SWEEP_INTERVAL_MS /\ Tick

SpecOrder == Init /\ [][NextOrder]_vars

\* Replays in one server run: the same signed requests, whose timestamps are
\* fixed instants (the start of the run and the latest instant acceptable
\* then), sent again at any later time, under either of two nonces, while the
\* sweep runs.
ReplayTimestamps == {IsoString(0), IsoString(NONCE_EXPIRY_MS)}

NextReplay ==
    \/ \E no \in Nonces, ts \in ReplayTimestamps :
          /\ nops < MaxOpsRun
          /\ PostInbox(Request("t1", "pkA", "research.web", "d1", no, ts, "own"))
    \/ Sweep
    \/ now < MaxTicksRun * SWEEP_INTERVAL_MS /\ Tick

SpecReplay == Init /\ [][NextReplay]_vars

\* A requester that keeps sending while it is refused: requests with and
\* without a description under two nonces, more of them than the limit, over
\* a full rate window; a sweep that is due runs before the next request.
NextAdmit ==
    \/ /\ nops < MaxOpsAdmit
       /\ now < nextSweep
       /\ InboxStep({"t1"}, {"pkA"}, {"research.web"}, Descriptions, Nonces,
                    {0}, {}, {"own"})
    \/ Sweep
    \/ now < MaxTicksRate * SWEEP_INTERVAL_MS /\ Tick

SpecAdmit == Init /\ [][NextAdmit]_vars

\* Clients and the inbox: requests built by sendTask and by the bridge's
\* submitTask with every combination of optional fields, as sent or with one
\* signed field changed on the way; each run hands one request to a server
\* that has handled none.
NextWire ==
    \/ \E m \in ClientMessages(now) : nops = 0 /\ PostInbox(m)
    \/ \E m \in BridgeMessages(now) : nops = 0 /\ PostInbox(m)
    \/ \E m \in ClientMessages(now) \cup BridgeMessages(now) :
          \E i \in DOMAIN SignedFields :
             \E x \in TamperValues(SignedFields[i], now) :
                /\ nops = 0
                /\ x # m[SignedFields[i]]
                /\ PostInbox(Tampered(m, SignedFields[i], x))
    \/ Sweep
    \/ now < MaxTicks * SWEEP_INTERVAL_MS /\ Tick

SpecWire == Init /\ [][NextWire]_vars

\* ------------------------------------------------ picoclaw-bridge.js: steps
\* The names fs.readdirSync returns, in its order
TaskFileNames == <<"aip-a.json", "aip-b.json">>
TrackingFileNames == <<"aip-a-tracking.json", "aip-b-tracking.json">>

\* submitTask: `${path.basename(taskFile, '.json')}-tracking.json`
TrackingName(f) ==
    CASE f = "aip-a.json" -> "aip-a-tracking.json"
      [] f = "aip-b.json" -> "aip-b-tracking.json"

\* The key pair the bridge loads from KEYS_PATH
BridgeKey == "pkA"

\* crypto.randomUUID(): the k-th value drawn
UuidTable ==
    <<"u1", "u2", "u3", "u4", "u5", "u6", "u7", "u8", "u9", "u10", "u11", "u12">>
MaxSubmits == 3

\* What an external program drops: a task the inbox takes and one of a type
\* it does not serve
DroppedTasks ==
    {[task_type |-> tp, description |-> "d1", params |-> Undefined,
      payment_offer |-> Undefined, deadline |-> Undefined] : tp \in TaskTypes}

\* watch(): readdirSync(PICOCLAW_TASKS_DIR).filter(.json, aip-, !processed.has(f))
readTaskDir(files, done) ==
    SelectSeq(TaskFileNames, LAMBDA f : f \in DOMAIN files /\ f \notin done)

\* pollResults(): readdirSync(PICOCLAW_RESULTS_DIR).filter(-tracking.json)
readResultsDir(trk) ==
    SelectSeq(TrackingFileNames, LAMBDA f : f \in DOMAIN trk)

\* markProcessed: processed.add(filename), then the whole set is written
markProcessed(done, filename) ==
    [processed |-> done \cup {filename}, file |-> done \cup {filename}]

\* submitTask up to its await of fetch: two UUIDs, the signed message
startSubmit(fs, files, k, t) ==
    [IdleCallback EXCEPT
        !.pc = "submit",
        !.files = Tail(fs),
        !.file = Head(fs),
        !.message = <<HttpBody(submitTaskMessage(files[Head(fs)], BridgeKey,
                                                 UuidTable[k + 1], UuidTable[k + 2], t))>>]

\* submitTask after the fetch: the tracking file written when res.ok
trackingRecord(message, data, f, t) ==
    [task_id |-> message.task_id,
     status |-> data.status,
     status_url |-> <<"tasks", message.task_id, "status">>,
     submitted |-> toISOString(t),
     source_file |-> f,
     result |-> << >>,
     receipt |-> << >>,
     completed |-> << >>]

\* pollResults up to its await of fetch: the loop skips every tracking file
\* whose status is 'completed' and suspends at the fetch for the first other
RECURSIVE startPoll(_, _)
startPoll(tfs, trk) ==
    IF tfs = << >>
    THEN IdleCallback
    ELSE IF trk[Head(tfs)].status = "completed"
    THEN startPoll(Tail(tfs), trk)
    ELSE [IdleCallback EXCEPT
             !.pc = "poll",
             !.tfs = Tail(tfs),
             !.tf = Head(tfs),
             !.read = <<trk[Head(tfs)]>>]

\* pollResults after the fetch: only the answer 'completed' rewrites the
\* tracking file, from the content read before the fetch
polledRecord(read, data, t) ==
    IF data.error = "none" /\ data.status = "completed"
    THEN [read EXCEPT !.status = "completed",
                      !.result = <<data.result>>,
                      !.receipt = <<data.receipt>>,
                      !.completed = <<toISOString(t)>>]
    ELSE read

\* The loop of watch() from the file list fs on: the next submitTask, or,
\* the list done, pollResults
ContinueWatch(slot, fs, trk) ==
    IF fs # << >>
    THEN /\ uuids + 2 <= 2 * MaxSubmits
         /\ callbacks' = [callbacks EXCEPT
                             ![slot] = startSubmit(fs, taskFiles, uuids, now)]
         /\ uuids' = uuids + 2
         /\ submissions' = Append(submissions,
                                  [file |-> Head(fs), task_id |-> UuidTable[uuids + 1],
                                   slot |-> slot])
    ELSE /\ callbacks' = [callbacks EXCEPT
                             ![slot] = startPoll(readResultsDir(trk), trk)]
         /\ UNCHANGED <<uuids, submissions>>

\* An external program writes a task file into the watched directory
DropFile(f, raw) ==
    /\ f \notin DOMAIN taskFiles
    /\ taskFiles' = MapSet(taskFiles, f, raw)
    /\ UNCHANGED <<now, seenNonces, nonceFile, nextSweep, rateBuckets, tasks, receipts,
                   resp, nops, last, nonceLog, pendingPayments, published, inflight,
                   processed, processedFile, tracking, callbacks, uuids, submissions>>

\* The interval elapses: a new invocation of the callback lists the unprocessed
\* files and runs to its first await
IntervalFires(slot) ==
    /\ callbacks[slot].pc = "idle"
    /\ ContinueWatch(slot, readTaskDir(taskFiles, processed), tracking)
    /\ UNCHANGED <<now, seenNonces, nonceFile, nextSweep, rateBuckets, tasks, receipts,
                   resp, nops, last, nonceLog, pendingPayments, published, inflight,
                   taskFiles, processed, processedFile, tracking>>

\* The fetch of submitTask settles: the inbox handled the request and
\* answered ("delivered"), or the fetch threw ("transport_error").  Then
\* markProcessed, then the loop goes on.
SubmitReturns(slot, outcome) ==
    /\ callbacks[slot].pc = "submit"
    /\ LET cb == callbacks[slot]
           message == cb.message[1]
           out == InboxOutcome(message, now, rateBuckets, seenNonces, tasks)
           trk == IF outcome = "delivered" /\ out.resp.code = 201
                  THEN MapSet(tracking, TrackingName(cb.file),
                              trackingRecord(message, out.resp.body, cb.file, now))
                  ELSE tracking
           marked == markProcessed(processed, cb.file)
       IN  /\ IF outcome = "delivered"
              THEN /\ resp' = out.resp
                   /\ rateBuckets' = out.buckets
                   /\ seenNonces' = out.seen
                   /\ tasks' = out.tasks
                   /\ nonceLog' = IF out.seen = seenNonces THEN nonceLog
                                  ELSE nonceLog \cup
                                       {[requester_id |-> message.requester_id,
                                         nonce |-> message.nonce, at |-> now]}
              ELSE UNCHANGED <<resp, rateBuckets, seenNonces, tasks, nonceLog>>
           /\ tracking' = trk
           /\ processed' = marked.processed
           /\ processedFile' = marked.file
           /\ ContinueWatch(slot, cb.files, trk)
           /\ last' = [op |-> "submitTask",
                       arg |-> [id |-> message.task_id, file |-> cb.file,
                                outcome |-> outcome]]
    /\ UNCHANGED <<now, nonceFile, nextSweep, receipts, nops, pendingPayments,
                   published, inflight, taskFiles>>

\* The fetch of pollResults settles; then the loop goes on with the next
\* tracking file
PollReturns(slot, outcome) ==
    /\ callbacks[slot].pc = "poll"
    /\ LET cb == callbacks[slot]
           read == cb.read[1]
           answer == StatusResponse(tasks, read.status_url[2])
           trk == IF outcome = "delivered"
                  THEN MapSet(tracking, cb.tf, polledRecord(read, answer.body, now))
                  ELSE tracking
       IN  /\ resp' = IF outcome = "delivered" THEN answer ELSE resp
           /\ tracking' = IF outcome = "delivered" /\ polledRecord(read, answer.body, now) # read
                          THEN trk ELSE tracking
           /\ callbacks' = [callbacks EXCEPT ![slot] = startPoll(cb.tfs, tracking')]
           /\ last' = [op |-> "pollResults",
                       arg |-> [id |-> read.task_id, file |-> cb.tf,
                                outcome |-> outcome]]
    /\ UNCHANGED <<now, seenNonces, nonceFile, nextSweep, rateBuckets, tasks, receipts,
                   nops, nonceLog, pendingPayments, published, inflight, taskFiles,
                   processed, processedFile, uuids, submissions>>

\* The bridge process stops and starts again: the set is read back from
\* PROCESSED_FILE and no invocation is running
BridgeRestart ==
    /\ processed' = processedFile
    /\ callbacks' = [slot \in Slots |-> IdleCallback]
    /\ UNCHANGED <<now, seenNonces, nonceFile, nextSweep, rateBuckets, tasks, receipts,
                   resp, nops, last, nonceLog, pendingPayments, published, inflight,
                   taskFiles, processedFile, tracking, uuids, submissions>>

FetchOutcomes == {"delivered", "transport_error"}

\* The bridge beside the inbox: files are dropped, the interval fires while
\* earlier invocations still run, fetches settle either way, the operator
\* completes or rejects the accepted tasks, the bridge restarts.
MaxOpsBridge == 1
NextBridge ==
    \/ \E f \in {"aip-a.json", "aip-b.json"}, raw \in DroppedTasks : DropFile(f, raw)
    \/ \E slot \in Slots : IntervalFires(slot)
    \/ \E slot \in Slots, outcome \in FetchOutcomes : SubmitReturns(slot, outcome)
    \/ \E slot \in Slots, outcome \in FetchOutcomes : PollReturns(slot, outcome)
    \/ \E id \in DOMAIN tasks : nops < MaxOpsBridge /\ PostComplete(id, "r1", Null)
    \/ \E id \in DOMAIN tasks : nops < MaxOpsBridge /\ PostReject(id, "spam")
    \/ BridgeRestart

SpecBridge == Init /\ [][NextBridge]_vars

\* One dropped file, and a bridge and a network that keep going: the interval
\* keeps firing, a pending submission settles, and a status request gets
\* through in the end.
MaxOpsWatch == 1
NextWatch ==
    \/ DropFile("aip-a.json", CHOOSE raw \in DroppedTasks : raw.task_type = "research.web")
    \/ \E slot \in Slots : IntervalFires(slot)
    \/ \E slot \in Slots, outcome \in FetchOutcomes : SubmitReturns(slot, outcome)
    \/ \E slot \in Slots, outcome \in FetchOutcomes : PollReturns(slot, outcome)
    \/ \E id \in DOMAIN tasks : nops < MaxOpsWatch /\ PostComplete(id, "r1", Null)
    \/ \E id \in DOMAIN tasks : nops < MaxOpsWatch /\ PostReject(id, "spam")

SpecWatch ==
    /\ Init
    /\ [][NextWatch]_vars
    /\ WF_vars(\E slot \in Slots : IntervalFires(slot))
    /\ WF_vars(\E slot \in Slots, outcome \in FetchOutcomes : SubmitReturns(slot, outcome))
    /\ SF_vars(\E slot \in Slots : PollReturns(slot, "delivered"))

\* ------------------------------------------------- requests in flight
\* A POST /inbox request has been received and its body parsed; its handler
\* is queued and has not run.  Several requests can be in this position at
\* once; the handler itself has no await and no callback in it, so once it
\* starts it runs to its response before any other handler or the sweep runs.
MaxInflight == 2
Arrive(req) ==
    /\ req \notin inflight
    /\ Cardinality(inflight) < MaxInflight
    /\ inflight' = inflight \cup {req}
    /\ UNCHANGED <<now, seenNonces, nonceFile, nextSweep, rateBuckets, tasks, receipts,
                   resp, nops, last, nonceLog, clientVars>>

\* Requests of one requester for two task ids under two nonces arrive while
\* others wait; the waiting handlers run in any order, between and around the
\* sweeps.
MaxOpsConcurrent == 3
NextConcurrent ==
    \/ \E id \in TaskIds, no \in Nonces :
          /\ nops + Cardinality(inflight) < MaxOpsConcurrent
          /\ Arrive(Request(id, "pkA", "research.web", "d1", no, IsoString(now), "own"))
    \/ \E req \in inflight : PostInbox(req)
    \/ Sweep
    \/ now < MaxTicks * SWEEP_INTERVAL_MS /\ Tick

SpecConcurrent == Init /\ [][NextConcurrent]_vars








\* ======================================================================
\* Properties
\* ======================================================================

\* The step just taken handled a POST /inbox; its request is last'.arg.
InboxHandled == nops' = nops + 1 /\ last'.op = "inbox"

\* What the sentences of the specification mean by their conditions, stated
\* on the request and the state before the handler ran.
RequiredPresent(req) ==
    /\ \A f \in {"task_id", "requester_id", "task_type", "description", "nonce"} :
          req[f] \notin {"", Null, Undefined}
    /\ req.timestamp.kind # "empty"
    /\ req.signature # NoSignature

WithinRateLimit(buckets, requesterId, t) ==
    \/ requesterId \notin DOMAIN buckets
    \/ Cardinality({i \in DOMAIN buckets[requesterId] :
                       t - buckets[requesterId][i] < RATE_WINDOW_MS}) < RATE_MAX_REQUESTS

Distance(a, b) == IF a < b THEN b - a ELSE a - b
TimestampWithin(timestamp, t) ==
    timestamp.kind = "iso" /\ Distance(timestamp.ms, t) <= NONCE_EXPIRY_MS
TimestampBeyond(timestamp, t) ==
    timestamp.kind = "iso" /\ Distance(timestamp.ms, t) > NONCE_EXPIRY_MS

ValidlySigned(req) ==
    req.signature =
        SignatureOf(Unsigned(req.task_id, req.requester_id, req.task_type,
                             req.description, req.nonce, req.timestamp), "own")

TwiceReplayWindow == 2 * NONCE_EXPIRY_MS

IsError(r, code, kind) == r.code = code /\ r.body.error = kind

\* C1 (as claimed, on the operations it names): a task whose status is
\* 'completed' or 'rejected' keeps that status over every later complete and
\* reject (complete on a rejected task, reject on a completed task, a second
\* complete).
C1_TerminalStatesFinal ==
    [][last'.op \in {"complete", "reject"} =>
          \A id \in DOMAIN tasks :
              tasks[id].status \in {"completed", "rejected"}
                  => (id \in DOMAIN tasks' /\ tasks'[id].status = tasks[id].status)]_vars

\* C2 (as claimed): a task record is never deleted, and only complete or reject
\* change it; a later accepted submission with the same task_id leaves it alone.
C2_RecordChangedOnlyByCompleteOrReject ==
    [][\A id \in DOMAIN tasks :
          /\ id \in DOMAIN tasks'
          /\ tasks'[id] # tasks[id] => last'.op \in {"complete", "reject"}]_vars

\* C3 (as claimed, on the operation it names): once a receipt is issued for a
\* task, no later complete changes the standalone receipt record or the receipt
\* embedded in the task record.
C3_ReceiptImmutable ==
    [][last'.op = "complete" =>
          /\ \A id \in DOMAIN receipts :
                 id \in DOMAIN receipts' /\ receipts'[id] = receipts[id]
          /\ \A id \in DOMAIN tasks :
                 tasks[id].receipt # << >>
                     => (id \in DOMAIN tasks' /\ tasks'[id].receipt = tasks[id].receipt)]_vars

C5_NoReuseWithinTwiceWindow ==
    [][/\ InboxHandled =>
             \A e \in nonceLog :
                 (e.nonce = last'.arg.nonce /\ now - e.at <= TwiceReplayWindow)
                     => /\ resp'.code # 201
                        /\ nonceLog' = nonceLog
                        /\ seenNonces' = seenNonces
                        /\ (/\ RequiredPresent(last'.arg)
                            /\ WithinRateLimit(rateBuckets, last'.arg.requester_id, now))
                               => IsError(resp', 400, "invalid_nonce")
       /\ \A n \in DOMAIN seenNonces :
             n \notin DOMAIN seenNonces' => now - seenNonces[n] > TwiceReplayWindow]_vars

\* C5 witness: after sweeps that kept the entry, a replay with a timestamp
\* inside the window exactly 10 minutes after the recording was refused.
C5_Witness ==
    /\ last.op = "inbox"
    /\ IsError(resp, 400, "invalid_nonce")
    /\ TimestampWithin(last.arg.timestamp, now)
    /\ last.arg.nonce \in DOMAIN seenNonces
    /\ now - seenNonces[last.arg.nonce] = TwiceReplayWindow
    /\ nonceFile # << >>

\* C6 (as claimed): after a stop and restart, every nonce accepted less than 10
\* minutes before is in the nonce set reloaded at startup.
C6_RestartKeepsRecentNonces ==
    [][Restart =>
          \A e \in nonceLog :
              now - e.at < TwiceReplayWindow => e.nonce \in DOMAIN seenNonces']_vars

\* C7 (as claimed): every stored task record was created from a request whose
\* timestamp is a time within 5 minutes of the server time of its receipt.
C7_StoredTimestampsWithinWindow ==
    \A id \in DOMAIN tasks :
        /\ tasks[id].timestamp.kind = "iso"
        /\ Distance(tasks[id].timestamp.ms, tasks[id].created.ms) <= NONCE_EXPIRY_MS

\* The part of C8 about the edge: a timestamp exactly 5 minutes away does not
\* make a request with a fresh nonce fail with invalid_nonce.
EdgeNotRejected ==
    (/\ InboxHandled
     /\ last'.arg.timestamp.kind = "iso"
     /\ Distance(last'.arg.timestamp.ms, now) = NONCE_EXPIRY_MS
     /\ last'.arg.nonce \notin DOMAIN seenNonces)
       => resp'.body.error # "invalid_nonce"

\* C8 (as claimed): every request whose timestamp is more than 5 minutes from
\* server time is rejected with invalid_nonce (400); one exactly 5 minutes away
\* is not rejected on that ground.
C8_BeyondWindowAlwaysInvalidNonce ==
    [][/\ (InboxHandled /\ TimestampBeyond(last'.arg.timestamp, now))
             => IsError(resp', 400, "invalid_nonce")
       /\ EdgeNotRejected]_vars

\* C8 (amended): every request that has all required fields and is within its
\* requester's rate limit and whose timestamp is more than 5 minutes from server
\* time is rejected with invalid_nonce (400), recording nothing; one exactly
\* 5 minutes away is not rejected on that ground.
C8_BeyondWindowInvalidNonce ==
    [][/\ (/\ InboxHandled
           /\ RequiredPresent(last'.arg)
           /\ WithinRateLimit(rateBuckets, last'.arg.requester_id, now)
           /\ TimestampBeyond(last'.arg.timestamp, now))
             => /\ IsError(resp', 400, "invalid_nonce")
                /\ seenNonces' = seenNonces
                /\ tasks' = tasks
       /\ EdgeNotRejected]_vars

\* C8 witness: a validly signed request for a supported capability with a fresh
\* nonce, one millisecond beyond the window, was rejected with invalid_nonce.
C8_Witness ==
    /\ last.op = "inbox"
    /\ RequiredPresent(last.arg)
    /\ ValidlySigned(last.arg)
    /\ last.arg.task_type \in ManifestCapabilities
    /\ last.arg.timestamp.kind = "iso"
    /\ last.arg.timestamp.ms - now = NONCE_EXPIRY_MS + 1
    /\ seenNonces = EmptyMap
    /\ IsError(resp, 400, "invalid_nonce")

\* C9: a request with all required fields, within the rate limit, with an
\* unrecorded nonce and a timestamp inside the window whose signature is not
\* the requester's signature over the ten fields fails with invalid_signature
\* (401) and no task record is written, whatever its task_type.
C9_BadSignatureRejected ==
    [][(/\ InboxHandled
        /\ RequiredPresent(last'.arg)
        /\ WithinRateLimit(rateBuckets, last'.arg.requester_id, now)
        /\ last'.arg.nonce \notin DOMAIN seenNonces
        /\ TimestampWithin(last'.arg.timestamp, now)
        /\ ~ValidlySigned(last'.arg))
          => /\ IsError(resp', 401, "invalid_signature")
             /\ tasks' = tasks]_vars

\* C9 witness: the requester's own signature over other field values, on a
\* request for an unsupported task_type, was answered 401.
C9_Witness ==
    /\ last.op = "inbox"
    /\ last.arg.signature.signer = SecretKeyOf(last.arg.requester_id)
    /\ ~ValidlySigned(last.arg)
    /\ last.arg.task_type \notin ManifestCapabilities
    /\ IsError(resp, 401, "invalid_signature")
    /\ tasks = EmptyMap

\* C10: a request with all required fields, within the rate limit, with an
\* unrecorded nonce, a timestamp within 5 minutes, the requester's signature and
\* a supported task_type is answered 201 'accepted', and the status of its task
\* is then 'pending' with result null and receipt null.
C10_ValidRequestAccepted ==
    [][(/\ InboxHandled
        /\ RequiredPresent(last'.arg)
        /\ WithinRateLimit(rateBuckets, last'.arg.requester_id, now)
        /\ last'.arg.nonce \notin DOMAIN seenNonces
        /\ TimestampWithin(last'.arg.timestamp, now)
        /\ ValidlySigned(last'.arg)
        /\ last'.arg.task_type \in ManifestCapabilities)
          => /\ resp'.code = 201
             /\ resp'.body.status = "accepted"
             /\ resp'.body.task_id = last'.arg.task_id
             /\ LET st == StatusResponse(tasks', last'.arg.task_id)
                IN  /\ st.code = 200
                    /\ st.body.status = "pending"
                    /\ st.body.result = Null
                    /\ st.body.receipt = << >>]_vars

\* C10 witness: GET /tasks/t1/status answered 'pending' for a task accepted
\* with a timestamp exactly 5 minutes ahead of the server clock.
C10_Witness ==
    /\ last.op = "status"
    /\ resp.code = 200
    /\ resp.body.status = "pending"
    /\ resp.body.result = Null
    /\ resp.body.receipt = << >>
    /\ tasks["t1"].timestamp.ms - tasks["t1"].created.ms = NONCE_EXPIRY_MS

\* The step just taken handled the named operator request; it is last'.arg.
Handled(op) == nops' = nops + 1 /\ last'.op = op

\* C12 (as claimed): whenever POST /inbox answers with a failure, the task
\* store, the receipt store, the nonce set and the rate buckets are as before.
C12_FailureLeavesStateUnchanged ==
    [][(InboxHandled /\ resp'.code # 201)
          => /\ tasks' = tasks
             /\ receipts' = receipts
             /\ seenNonces' = seenNonces
             /\ rateBuckets' = rateBuckets]_vars

\* nacl.sign.detached.verify of a receipt's agent_signature over the receipt's
\* fields other than the signature
ReceiptVerifies(receipt, publicKey) ==
    /\ receipt.agent_signature.signer = SecretKeyOf(publicKey)
    /\ receipt.agent_signature.bytes = Stringify(receipt, ReceiptFields)

C14_ReceiptHashMatchesTaskResult ==
    \A id \in DOMAIN receipts :
        /\ id \in DOMAIN tasks
        /\ receipts[id].result_hash = SHA256Hex(JSONStringify(tasks[id].result))

\* C15: reject on a completed task leaves the receipt embedded in the task
\* record and the standalone receipt record as they were issued at completion.
C15_RejectKeepsReceipt ==
    [][Handled("reject")
          => /\ receipts' = receipts
             /\ \A id \in DOMAIN tasks :
                    tasks[id].status = "completed"
                        => /\ tasks[id].receipt # << >>
                           /\ tasks'[id].receipt = tasks[id].receipt
                           /\ receipts'[id] = tasks[id].receipt[1]]_vars

\* C15 witness: task t1 was completed and then rejected; its record still
\* embeds the receipt that the receipt store holds.
C15_Witness ==
    /\ last.op = "reject"
    /\ last.arg.id = "t1"
    /\ resp.code = 200
    /\ tasks["t1"].status = "rejected"
    /\ tasks["t1"].result # Null
    /\ "t1" \in DOMAIN receipts
    /\ tasks["t1"].receipt = <<receipts["t1"]>>

\* C16 (as claimed): a request fails the replay check only if the same
\* requester_id has used its nonce before: with all required fields, within the
\* rate limit and with a timestamp inside the window, a nonce that this
\* requester never had recorded does not fail with invalid_nonce.
C16_NonceTrackedPerRequester ==
    [][(/\ InboxHandled
        /\ RequiredPresent(last'.arg)
        /\ WithinRateLimit(rateBuckets, last'.arg.requester_id, now)
        /\ TimestampWithin(last'.arg.timestamp, now)
        /\ ~\E e \in nonceLog : /\ e.requester_id = last'.arg.requester_id
                                /\ e.nonce = last'.arg.nonce)
          => resp'.body.error # "invalid_nonce"]_vars

\* C17 (as claimed): for a task that is not 'completed' status returns result
\* null and receipt null, for an unknown id 404 not_found, and a status call
\* changes no stored state.
C17_StatusGatedAndReadOnly ==
    [][/\ \A id \in TaskIds :
             LET st == StatusResponse(tasks', id)
             IN  IF id \notin DOMAIN tasks'
                 THEN IsError(st, 404, "not_found")
                 ELSE tasks'[id].status # "completed"
                          => st.body.result = Null /\ st.body.receipt = << >>
       /\ Handled("status")
             => /\ resp' = StatusResponse(tasks, last'.arg.id)
                /\ UNCHANGED <<tasks, receipts, seenNonces, nonceFile, rateBuckets>>]_vars

\* C18 (as claimed): complete answers not_found (404) for an unknown id and
\* missing_result (400) when no result is supplied, changing neither store;
\* with any supplied result value, the empty string, 0 and false included, it
\* completes the task.
C18_CompleteErrorsAndFalsyResults ==
    [][Handled("complete")
          => IF last'.arg.id \notin DOMAIN tasks
             THEN /\ IsError(resp', 404, "not_found")
                  /\ tasks' = tasks /\ receipts' = receipts
             ELSE IF last'.arg.result \in {Undefined, Null}
             THEN /\ IsError(resp', 400, "missing_result")
                  /\ tasks' = tasks /\ receipts' = receipts
             ELSE /\ resp'.code = 200
                  /\ tasks'[last'.arg.id].status = "completed"
                  /\ tasks'[last'.arg.id].result = last'.arg.result]_vars

\* C19: reject answers not_found (404) and changes nothing for an unknown id;
\* otherwise the task's status becomes 'rejected', the reason recorded is the
\* one supplied, or 'No reason given' when none (or an empty one) is, and no
\* receipt record is created or changed.
C19_RejectRecordsReason ==
    [][Handled("reject")
          => /\ receipts' = receipts
             /\ IF last'.arg.id \notin DOMAIN tasks
                THEN /\ IsError(resp', 404, "not_found")
                     /\ tasks' = tasks
                ELSE LET id == last'.arg.id
                     IN  /\ resp'.code = 200
                         /\ tasks'[id].status = "rejected"
                         /\ tasks'[id].rejection_reason =
                               IF last'.arg.reason \in {Undefined, ""}
                               THEN "No reason given" ELSE last'.arg.reason
                         /\ tasks'[id].receipt = tasks[id].receipt
                         /\ \A other \in DOMAIN tasks \ {id} :
                                tasks'[other] = tasks[other]]_vars

\* C19 witness: a pending task was rejected without a reason; the record is
\* 'rejected' with the default reason and there is no receipt for it.
C19_Witness ==
    /\ last.op = "reject"
    /\ last.arg.reason = Undefined
    /\ resp.code = 200
    /\ resp.body.reason = "No reason given"
    /\ tasks[last.arg.id].status = "rejected"
    /\ tasks[last.arg.id].rejection_reason = "No reason given"
    /\ tasks[last.arg.id].receipt = << >>
    /\ last.arg.id \notin DOMAIN receipts

\* C23 (as claimed): when a task that has a callback_url is completed, its
\* result is eventually delivered to that callback_url.
C23_CallbackEventuallyDelivered ==
    []((/\ "t1" \in DOMAIN tasks
        /\ tasks["t1"].status = "completed"
        /\ tasks["t1"].callback_url # Null)
          => <>(\E p \in CallbackPosts :
                  /\ p.url = tasks["t1"].callback_url
                  /\ p.task_id = "t1"))

\* C24: whatever relays fail at connect or at publish, publishReceipt and
\* publishManifest connect to every configured relay in turn, publish on each
\* that connected, and report as success count the number of relays whose
\* publish succeeded.
C24_EveryRelayAttempted ==
    [][(Handled("publishReceipt") \/ Handled("publishManifest")) =>
          LET relays == IF last'.op = "publishReceipt"
                        THEN RECEIPT_RELAYS ELSE MANIFEST_RELAYS
              outcome == last'.arg.outcome
              out == resp'.body
          IN  /\ out.connects = relays
              /\ \A i \in DOMAIN relays :
                    outcome[relays[i]] # "connect_fails"
                        <=> \E j \in DOMAIN out.publishes : out.publishes[j] = relays[i]
              /\ out.success
                    = Cardinality({i \in DOMAIN relays : outcome[relays[i]] = "ok"})
              /\ out.relays = Len(relays)]_vars

\* C24 witness: publishReceipt met a relay that refused the connection, then
\* one that refused the event, then one that took it: all three were
\* connected to and the count is 1.
C24_Witness ==
    /\ last.op = "publishReceipt"
    /\ last.arg.outcome["wss://relay.damus.io"] = "connect_fails"
    /\ last.arg.outcome["wss://nos.lol"] = "publish_fails"
    /\ last.arg.outcome["wss://relay.primal.net"] = "ok"
    /\ resp.body.connects = RECEIPT_RELAYS
    /\ resp.body.publishes = <<"wss://nos.lol", "wss://relay.primal.net">>
    /\ resp.body.success = 1

\* The tag of an event with the given name.
TagOf(event, name) ==
    LET i == CHOOSE k \in DOMAIN event.tags : event.tags[k][1] = name
    IN  event.tags[i]

\* C25: discoverAgents returns at most one entry per npub, and the entry kept
\* for a publisher is the one with the greatest created_at among the manifest
\* events collected from it, across relays or within one relay.
C25_OnePerPublisherNewestKept ==
    [][Handled("discoverAgents") =>
         LET agents == resp'.body.agents
             answers == last'.arg.answers
         IN  /\ \A i, j \in DOMAIN agents : agents[i].npub = agents[j].npub => i = j
             /\ \A i \in DOMAIN agents :
                  \A url \in RelaySet(MANIFEST_RELAYS) :
                     answers[url].connect =>
                        \A k \in DOMAIN answers[url].events :
                           LET ev == answers[url].events[k]
                           IN  (ev.content.json /\ npubEncode(ev.pubkey) = agents[i].npub)
                                  => ev.created_at * 1000 <= agents[i].updated.ms]_vars

\* C27: a createTaskPayment whose amount exceeds maxPrice or whose invoice
\* creation throws fails and leaves pendingPayments, the task store and the
\* receipt store as they were; a checkTaskPayment for a task with no recorded
\* payment answers 'not_found' without a call to the payment service.
C27_PaymentFailureLeavesStateUnchanged ==
    [][/\ (/\ Handled("createTaskPayment")
           /\ (last'.arg.amount > maxPrice \/ ~last'.arg.invoice.ok))
          => /\ resp'.body.error # "none"
             /\ pendingPayments' = pendingPayments
             /\ tasks' = tasks
             /\ receipts' = receipts
       /\ (Handled("checkTaskPayment") /\ last'.arg.id \notin DOMAIN pendingPayments)
          => /\ resp'.body.status = "not_found"
             /\ resp'.body.calls = 0
             /\ pendingPayments' = pendingPayments
             /\ tasks' = tasks
             /\ receipts' = receipts]_vars

\* C27 witness: a payment of 100 for t1 is on record, a second request for t1
\* met a throwing payment service, and the record of 100 is still the one kept
\* beside the stored task.
C27_Witness ==
    /\ resp.op = "createTaskPayment"
    /\ resp.body.error = "invoice_failed"
    /\ last.arg.id = "t1"
    /\ last.arg.amount = maxPrice
    /\ "t1" \in DOMAIN pendingPayments
    /\ pendingPayments["t1"].amount = 100
    /\ "t1" \in DOMAIN tasks

\* The first check a request fails, in the order missing fields, rate limit,
\* nonce and timestamp, signature, capability, as status code and error kind;
\* 201 when it fails none.
FirstFailing(req, buckets, seen, t) ==
    IF ~RequiredPresent(req) THEN <<400, "missing_fields">>
    ELSE IF ~WithinRateLimit(buckets, req.requester_id, t) THEN <<429, "rate_limited">>
    ELSE IF req.nonce \in DOMAIN seen \/ TimestampBeyond(req.timestamp, t)
         THEN <<400, "invalid_nonce">>
    ELSE IF ~ValidlySigned(req) THEN <<401, "invalid_signature">>
    ELSE IF req.task_type \notin ManifestCapabilities THEN <<404, "capability_not_found">>
    ELSE <<201, "none">>

\* C28: the answer of POST /inbox to a request whose timestamp is a date is
\* the status code and error kind of the first check it fails in the order
\* missing fields, rate limit, nonce/timestamp, signature, capability, and
\* 201 when it fails none.
C28_FirstFailingCheckDecides ==
    [][(InboxHandled /\ last'.arg.timestamp.kind # "garbage")
          => <<resp'.code, resp'.body.error>> =
                FirstFailing(last'.arg, rateBuckets, seenNonces, now)]_vars

\* C28 witness: a request over the rate limit that also replays a nonce, has
\* a timestamp beyond the window, carries another key's signature and names
\* an unsupported task_type was answered 429 rate_limited.
C28_Witness ==
    /\ last.op = "inbox"
    /\ IsError(resp, 429, "rate_limited")
    /\ RequiredPresent(last.arg)
    /\ last.arg.nonce \in DOMAIN seenNonces
    /\ TimestampBeyond(last.arg.timestamp, now)
    /\ ~ValidlySigned(last.arg)
    /\ last.arg.task_type \notin ManifestCapabilities

\* C29: POST /inbox answers 'capability_not_found', or anything carrying the
\* supported capability list, only to a request whose signature is the
\* requester's own over the request's fields; a request with any other
\* signature never gets the list.
C29_CapabilitiesOnlyToVerifiedSigners ==
    [][InboxHandled =>
          /\ (resp'.body.error = "capability_not_found" \/ "supported" \in DOMAIN resp'.body)
                => ValidlySigned(last'.arg)
          /\ ~ValidlySigned(last'.arg) => "supported" \notin DOMAIN resp'.body]_vars

\* C29 witness: a validly signed request for an unsupported task_type was
\* answered 404 with the supported list.
C29_Witness ==
    /\ last.op = "inbox"
    /\ ValidlySigned(last.arg)
    /\ last.arg.task_type \notin ManifestCapabilities
    /\ IsError(resp, 404, "capability_not_found")
    /\ resp.body.supported = ManifestCapabilities

\* The task record was made from this request: the fields the signature
\* covers that the record keeps are the request's.
RecordOf(task, req) ==
    \A f \in {"task_id", "requester_id", "task_type", "description", "nonce", "timestamp"} :
        task[f] = req[f]

\* C30: in one server run a signed request whose timestamp is a date is
\* accepted at most once: a request accepted now is not one that was accepted
\* before, and could not have been the request that recorded its nonce at any
\* earlier time (its timestamp was not within the window then); the sweep
\* removes a nonce only more than 10 minutes after it was recorded.
C30_SignedRequestAcceptedOnce ==
    [][/\ (/\ InboxHandled
           /\ resp'.code = 201
           /\ last'.arg.timestamp.kind = "iso")
          => /\ \A e \in nonceLog :
                   e.nonce = last'.arg.nonce
                      => /\ now - e.at > TwiceReplayWindow
                         /\ ~TimestampWithin(last'.arg.timestamp, e.at)
             /\ \A id \in DOMAIN tasks : ~RecordOf(tasks[id], last'.arg)
       /\ \A n \in DOMAIN seenNonces :
             n \notin DOMAIN seenNonces' => now - seenNonces[n] > TwiceReplayWindow]_vars

\* C30 witness: the request accepted at the start of the run, sent again ten
\* minutes later when its timestamp is still inside the window and after the
\* sweeps of those ten minutes, was refused with invalid_nonce.
C30_Witness ==
    /\ last.op = "inbox"
    /\ IsError(resp, 400, "invalid_nonce")
    /\ TimestampWithin(last.arg.timestamp, now)
    /\ "t1" \in DOMAIN tasks
    /\ RecordOf(tasks["t1"], last.arg)
    /\ ValidlySigned(last.arg)
    /\ now - tasks["t1"].created.ms = TwiceReplayWindow
    /\ nextSweep > now

\* C26: every event published for a receipt of task T has the d tag
\* 'aip-receipt-' followed by T's task_id, and two publications of the same
\* receipt have the same kind, tags, content and created_at.
C26_ReceiptPublishIdempotent ==
    /\ \A i \in DOMAIN published :
          TagOf(published[i].event, "d")
              = <<"d", <<"aip-receipt-", published[i].receipt.task_id>>>>
    /\ \A i, j \in DOMAIN published :
          published[i].receipt = published[j].receipt
              => /\ published[i].event.kind = published[j].event.kind
                 /\ published[i].event.tags = published[j].event.tags
                 /\ published[i].event.content = published[j].event.content
                 /\ published[i].event.created_at = published[j].event.created_at

\* C26 witness: the receipt of t1 was published, the task completed again
\* with another result at a later time, and the new receipt published twice:
\* three events under one d tag, the last two equal.
C26_Witness ==
    /\ Len(published) = 3
    /\ published[1].receipt # published[2].receipt
    /\ published[1].event.created_at # published[2].event.created_at
    /\ TagOf(published[1].event, "d") = TagOf(published[2].event, "d")
    /\ published[2] = published[3]

\* A list is in descending order of the date in the named field.
DescendingBy(seq, field) ==
    \A i, j \in DOMAIN seq : i < j => seq[i][field].ms >= seq[j][field].ms

\* The list holds, once each, the best of the matching entries: as many as the
\* limit allows, none older left in while a newer one is left out.
NewestOf(seq, matching, field, limit) ==
    /\ \A i \in DOMAIN seq : seq[i] \in matching
    /\ \A i, j \in DOMAIN seq : i # j => seq[i].task_id # seq[j].task_id
    /\ Len(seq) = IF limit = Undefined \/ ParseInt(limit) > Cardinality(matching)
                  THEN Cardinality(matching) ELSE ParseInt(limit)
    /\ \A m \in matching :
          (\A i \in DOMAIN seq : seq[i] # m)
              => \A i \in DOMAIN seq : seq[i][field].ms >= m[field].ms

\* C21: GET /receipts returns exactly the stored receipts whose task_type is
\* the filter's (and whose agent_id is the given one, when given), in
\* descending order of completion_timestamp, cut to the first `limit` entries
\* when a limit is given.
C21_ReceiptsFilteredSortedCut ==
    [][Handled("receipts") =>
          LET q == last'.arg
              matching == {receipts[id] : id \in
                             {i \in DOMAIN receipts :
                                 /\ q.task_type # Undefined
                                       => receipts[i].task_type = q.task_type
                                 /\ q.agent_id # Undefined
                                       => receipts[i].agent_id = q.agent_id}}
          IN  /\ resp'.code = 200
              /\ DescendingBy(resp'.body.receipts, "completion_timestamp")
              /\ NewestOf(resp'.body.receipts, matching, "completion_timestamp", q.limit)
              /\ receipts' = receipts]_vars

\* C21 witness: two receipts of type research.web, the one in the second file
\* the newer; the query for that type with limit 1 returned the newer alone.
C21_Witness ==
    /\ last.op = "receipts"
    /\ last.arg.task_type = "research.web"
    /\ last.arg.limit = "1"
    /\ DOMAIN receipts = {"t1", "t2"}
    /\ receipts["t1"].task_type = "research.web"
    /\ receipts["t2"].task_type = "research.web"
    /\ receipts["t2"].completion_timestamp.ms > receipts["t1"].completion_timestamp.ms
    /\ resp.body.receipts = <<receipts["t2"]>>

\* C22: GET /tasks returns the stored tasks (those with the given status when
\* a status filter is set) in descending order of creation time, cut to
\* `limit`; every entry's description has at most 200 characters and is the
\* start of the task's, and no entry has a result or a receipt field.
C22_TasksListed ==
    [][Handled("tasks") =>
          LET q == last'.arg
              matching == {TaskSummary(tasks[id]) : id \in
                             {i \in DOMAIN tasks :
                                 q.status # Undefined => tasks[i].status = q.status}}
              out == resp'.body.tasks
          IN  /\ resp'.code = 200
              /\ DescendingBy(out, "created")
              /\ \A i \in DOMAIN out :
                    /\ StrLen(out[i].description) <= DESCRIPTION_PREVIEW
                    /\ out[i].description \in
                          {tasks[out[i].task_id].description, LongDescriptionPrefix}
                    /\ out[i].task_id \in DOMAIN tasks
                    /\ out[i].status = tasks[out[i].task_id].status
                    /\ out[i].created = tasks[out[i].task_id].created
                    /\ DOMAIN out[i] \cap {"result", "receipt"} = {}
              /\ Len(out) = IF q.limit = Undefined
                                \/ ParseInt(q.limit) > Cardinality(matching)
                            THEN Cardinality(matching) ELSE ParseInt(q.limit)
              /\ \A i, j \in DOMAIN out : i # j => out[i].task_id # out[j].task_id
              /\ \A id \in DOMAIN tasks :
                    (/\ q.status # Undefined => tasks[id].status = q.status
                     /\ \A i \in DOMAIN out : out[i].task_id # id)
                        => \A i \in DOMAIN out :
                              out[i].created.ms >= tasks[id].created.ms
              /\ \A i \in DOMAIN out :
                    q.status # Undefined => out[i].status = q.status
              /\ tasks' = tasks]_vars

\* C22 witness: the list of the pending tasks with limit 2 returned the newer
\* task t2 before t1, t1 with the first 200 characters of its description,
\* while t1's record holds the whole description.
C22_Witness ==
    /\ last.op = "tasks"
    /\ last.arg.status = "pending"
    /\ last.arg.limit = "2"
    /\ Len(resp.body.tasks) = 2
    /\ resp.body.tasks[1].task_id = "t2"
    /\ resp.body.tasks[2].task_id = "t1"
    /\ resp.body.tasks[2].description = LongDescriptionPrefix
    /\ tasks["t1"].description = LongDescription
    /\ tasks["t2"].created.ms > tasks["t1"].created.ms

\* The requests of a requester that checkRateLimit counted and that are less
\* than one rate window old.
Counted(buckets, requesterId, t) ==
    IF requesterId \in DOMAIN buckets
    THEN {i \in DOMAIN buckets[requesterId] :
             t - buckets[requesterId][i] < RATE_WINDOW_MS}
    ELSE {}

\* C11: a request with all required fields from a requester with 10 counted
\* requests in the last 60 seconds fails with rate_limited (429); when the
\* bucket is full and its oldest entry is 60 seconds old or older, the next
\* otherwise valid request of that requester is accepted.
C11_RateLimitedThenAccepted ==
    [][(InboxHandled /\ RequiredPresent(last'.arg)) =>
          LET rq == last'.arg.requester_id
          IN  /\ Cardinality(Counted(rateBuckets, rq, now)) >= RATE_MAX_REQUESTS
                    => /\ IsError(resp', 429, "rate_limited")
                       /\ tasks' = tasks
              /\ (/\ rq \in DOMAIN rateBuckets
                  /\ Len(rateBuckets[rq]) = RATE_MAX_REQUESTS
                  /\ now - rateBuckets[rq][1] >= RATE_WINDOW_MS
                  /\ last'.arg.nonce \notin DOMAIN seenNonces
                  /\ TimestampWithin(last'.arg.timestamp, now)
                  /\ ValidlySigned(last'.arg)
                  /\ last'.arg.task_type \in ManifestCapabilities)
                    => resp'.code = 201]_vars

\* C11 witness: pkA was counted once at time 0 and nine times 30 seconds
\* later, which filled its bucket; at 60 seconds, when the first entry was
\* exactly one window old, its next request was accepted.
C11_Witness ==
    /\ last.op = "inbox"
    /\ last.arg.requester_id = "pkA"
    /\ resp.code = 201
    /\ now = RATE_WINDOW_MS
    /\ [requester_id |-> "pkA", nonce |-> "n1", at |-> 0] \in nonceLog
    /\ Len(rateBuckets["pkA"]) = RATE_MAX_REQUESTS
    /\ rateBuckets["pkA"][1] = SWEEP_INTERVAL_MS
    /\ rateBuckets["pkA"][RATE_MAX_REQUESTS] = now

\* Every timestamp in the requester's bucket is less than one rate window old.
BucketFresh(buckets, requesterId, t) ==
    requesterId \in DOMAIN buckets =>
        \A i \in DOMAIN buckets[requesterId] :
            t - buckets[requesterId][i] < RATE_WINDOW_MS

BucketsBounded(buckets) ==
    \A rq \in DOMAIN buckets : Len(buckets[rq]) <= RATE_MAX_REQUESTS

\* C20 (as claimed): every rate bucket holds at most 10 timestamps, and after
\* any request from a requester all timestamps left in its bucket are less than
\* 60 seconds old.
C20_BucketFreshAfterAnyRequest ==
    [][/\ BucketsBounded(rateBuckets')
       /\ InboxHandled => BucketFresh(rateBuckets', last'.arg.requester_id, now)]_vars

\* C20 (amended): every rate bucket holds at most 10 timestamps, and after any
\* request from a requester that has all required fields all timestamps left
\* in its bucket are less than 60 seconds old.
C20_BucketFreshAfterCheckedRequest ==
    [][/\ BucketsBounded(rateBuckets')
       /\ (InboxHandled /\ RequiredPresent(last'.arg))
             => BucketFresh(rateBuckets', last'.arg.requester_id, now)]_vars

\* C20 witness: a full bucket whose oldest entry had become 60 seconds old took
\* a request that failed the replay check: the old entry is gone, the new
\* one is the tenth.
C20_Witness ==
    /\ last.op = "inbox"
    /\ IsError(resp, 400, "invalid_nonce")
    /\ now = RATE_WINDOW_MS
    /\ seenNonces["n1"] = 0
    /\ Len(rateBuckets["pkA"]) = RATE_MAX_REQUESTS
    /\ rateBuckets["pkA"][1] = SWEEP_INTERVAL_MS
    /\ rateBuckets["pkA"][RATE_MAX_REQUESTS] = now

\* C33: in every reachable state every task whose status is 'completed' has a
\* standalone receipt record under its task_id that equals the receipt
\* embedded in the task record, also after the task was completed again.
C33_CompletedTaskHasItsReceipt ==
    \A id \in DOMAIN tasks :
        tasks[id].status = "completed"
            => /\ id \in DOMAIN receipts
               /\ tasks[id].receipt = <<receipts[id]>>

\* C33 witness: t1 was submitted and completed with r1 and then with r2, and
\* both copies of the receipt are the one over r2.
C33_Witness ==
    /\ nops = MaxOps
    /\ last.op = "complete"
    /\ last.arg.result = "r2"
    /\ resp.code = 200
    /\ tasks["t1"].status = "completed"
    /\ tasks["t1"].receipt = <<receipts["t1"]>>
    /\ receipts["t1"].result_hash = SHA256Hex(JSONStringify("r2"))
    /\ now > tasks["t1"].created.ms

\* The step just taken was the timer callback (no other step of a single run
\* re-arms the timer).
SweepStep == nextSweep' = nextSweep + SWEEP_INTERVAL_MS /\ now' = now

\* C34: a sweep tick removes exactly the entries recorded more than 10
\* minutes before it, keeps those 10 minutes old or younger with their
\* recording times, and writes the surviving set to storage: right after the
\* tick the persisted set equals the set in memory.
C34_SweepPrunesAndPersists ==
    [][SweepStep =>
          /\ DOMAIN seenNonces' =
                {n \in DOMAIN seenNonces : now - seenNonces[n] <= TwiceReplayWindow}
          /\ \A n \in DOMAIN seenNonces' : seenNonces'[n] = seenNonces[n]
          /\ nonceFile' = <<seenNonces'>>]_vars

\* C34 witness: right after the tick at 10.5 minutes the nonce recorded at the
\* start of the run is gone, the one recorded 30 seconds later, now exactly 10
\* minutes old, is kept, and the file holds what memory holds.
C34_Witness ==
    /\ nextSweep = now + SWEEP_INTERVAL_MS
    /\ now = TwiceReplayWindow + SWEEP_INTERVAL_MS
    /\ \E e \in nonceLog : e.at = 0 /\ e.nonce \notin DOMAIN seenNonces
    /\ \E n \in DOMAIN seenNonces : now - seenNonces[n] = TwiceReplayWindow
    /\ nonceFile = <<seenNonces>>

\* The timestamps in a requester's bucket, oldest first.
BucketOf(buckets, requesterId) ==
    IF requesterId \in DOMAIN buckets THEN buckets[requesterId] ELSE << >>

\* C35: a request answered 'rate_limited' or 'missing_fields' leaves the
\* requester's bucket as it was, and a request with all required fields made
\* 60 seconds or more after the oldest timestamp in the bucket is not answered
\* 'rate_limited', however many refused requests came in between.
C35_RefusedRequestsNotCounted ==
    [][InboxHandled =>
          LET before == BucketOf(rateBuckets, last'.arg.requester_id)
              after == BucketOf(rateBuckets', last'.arg.requester_id)
          IN  /\ resp'.body.error \in {"rate_limited", "missing_fields"}
                    => after = before
              /\ (/\ RequiredPresent(last'.arg)
                  /\ before # << >>
                  /\ now - before[1] >= RATE_WINDOW_MS)
                    => resp'.body.error # "rate_limited"]_vars

\* C35 witness: twelve requests were handled, the twelfth was accepted 60
\* seconds after the start of the run, and its timestamp is the only one in
\* the bucket: of the eleven before it at most ten were counted, all at the
\* start, so at least one was refused and left no timestamp.
C35_Witness ==
    /\ nops = MaxOpsAdmit
    /\ last.op = "inbox"
    /\ resp.code = 201
    /\ now = RATE_WINDOW_MS
    /\ rateBuckets["pkA"] = <<now>>
    /\ \E e \in nonceLog : e.at = 0

\* The validly signed requests requester R may send at time t.
OwnRequests(R, t) ==
    {Request("t1", R, ty, "d1", no, IsoString(t), "own") :
        ty \in TaskTypes, no \in Nonces}

\* C31 (as claimed): a request whose signature does not verify changes nothing
\* that a requester's validly signed requests depend on: the run in which it
\* was handled and the run in which it was not give every validly signed
\* request that follows the same response.
C31_UnverifiedRequestsDoNotInterfere ==
    [][(InboxHandled /\ ~ValidlySigned(last'.arg)) =>
          \A R \in Requesters : \A q \in OwnRequests(R, now) :
              InboxOutcome(q, now, rateBuckets', seenNonces', tasks').resp
                 = InboxOutcome(q, now, rateBuckets, seenNonces, tasks).resp]_vars

\* The request is one that sendTask or submitTask built and sent at time t.
BuiltByClient(req, t) == req \in ClientMessages(t) \cup BridgeMessages(t)

\* The request is a built one with exactly one signed field changed.
TamperedInTransit(req, t) ==
    \E m \in ClientMessages(t) \cup BridgeMessages(t) :
       \E i \in DOMAIN SignedFields :
          /\ req = Tampered(m, SignedFields[i], req[SignedFields[i]])
          /\ req[SignedFields[i]] # m[SignedFields[i]]

\* C39 (as claimed): a request built by sendTask or submitTask carries null
\* in every optional field the caller left out, and passes the server's
\* signature check.
C39_AbsentOptionalFieldsNullAndVerified ==
    [][InboxHandled =>
          /\ \A opts \in ClientOpts :
                last'.arg = HttpBody(sendTask("research.web", "d1", opts, "pkA", "t1", "n1", now))
                   => \A f \in OptionalFields :
                         opts[f] = Undefined => last'.arg[f] = Null
          /\ BuiltByClient(last'.arg, now)
                => resp'.body.error # "invalid_signature"]_vars

\* C39 (amended): a request built by sendTask or submitTask, with params,
\* callback_url and deadline null when left out and payment_offer the default
\* offer when left out, passes the server's signature check, and with any one
\* of the ten signed fields changed after signing it does not pass it.
C39_SignVerifyRoundTrip ==
    [][InboxHandled =>
          /\ \A opts \in ClientOpts :
                last'.arg = HttpBody(sendTask("research.web", "d1", opts, "pkA", "t1", "n1", now))
                   => /\ \A f \in OptionalFields \ {"payment_offer"} :
                            opts[f] = Undefined => last'.arg[f] = Null
                      /\ opts.payment_offer = Undefined
                            => last'.arg.payment_offer = DefaultPaymentOffer
          /\ BuiltByClient(last'.arg, now)
                => /\ verifySignature(messageToVerify(last'.arg), last'.arg.signature,
                                      last'.arg.requester_id)
                   /\ resp'.body.error # "invalid_signature"
          /\ TamperedInTransit(last'.arg, now)
                => /\ ~verifySignature(messageToVerify(last'.arg), last'.arg.signature,
                                       last'.arg.requester_id)
                   /\ resp'.code \notin {201, 404}]_vars

\* C39 witness: a request of sendTask whose params held an undefined member
\* and whose deadline was NaN, with no payment_offer given, was accepted with
\* the default offer.
C39_Witness ==
    /\ last.op = "inbox"
    /\ resp.code = 201
    /\ last.arg = HttpBody(sendTask("research.web", "d1",
                              [params |-> ObjectWithUndefinedMember,
                               payment_offer |-> Undefined,
                               callback_url |-> Undefined,
                               deadline |-> NumberNaN],
                              "pkA", "t1", "n1", now))
    /\ last.arg.params = EmptyObject
    /\ last.arg.deadline = Null
    /\ last.arg.payment_offer = DefaultPaymentOffer

\* C36: each task file dropped in the watched directory is submitted to the
\* inbox at most once, whatever the order of ticks and however long a
\* submission takes: no two fetches of submitTask are for the same file, and no
\* two running invocations of the callback are submitting the same file.
C36_EachFileSubmittedAtMostOnce ==
    /\ \A i, j \in DOMAIN submissions :
          submissions[i].file = submissions[j].file => i = j
    /\ \A s1, s2 \in Slots :
          (/\ callbacks[s1].pc = "submit"
           /\ callbacks[s2].pc = "submit"
           /\ callbacks[s1].file = callbacks[s2].file) => s1 = s2

\* The attempt that settles in SubmitReturns(slot, outcome) failed: the fetch
\* threw, or the inbox answered with a status other than 201
AttemptFailed(slot, outcome) ==
    \/ outcome = "transport_error"
    \/ InboxOutcome(callbacks[slot].message[1], now, rateBuckets, seenNonces,
                    tasks).resp.code # 201

\* Every attempt so far for file f failed: f is marked and has no tracking file
FailedBefore(f) ==
    /\ f \in processed
    /\ TrackingName(f) \notin DOMAIN tracking

\* C37: a file is marked processed, in memory and in the file, after its
\* submission attempt whatever the outcome; a file whose attempt failed with a
\* transport error or was refused by the inbox gets no tracking file, then or
\* later, and no submission is started for a file that is marked, in memory
\* or (as a restart would read it) in the file.
C37_FailedFileMarkedAndNeverResubmitted ==
    [][/\ \A slot \in Slots : \A outcome \in FetchOutcomes :
             SubmitReturns(slot, outcome) =>
                /\ callbacks[slot].file \in processed'
                /\ callbacks[slot].file \in processedFile'
                /\ AttemptFailed(slot, outcome) => tracking' = tracking
                /\ FailedBefore(callbacks[slot].file) => tracking' = tracking
       /\ Len(submissions') > Len(submissions) =>
             /\ submissions'[Len(submissions')].file \notin processed
             /\ submissions'[Len(submissions')].file \notin processedFile]_vars

\* The task a tracking file follows has reached a final status on the inbox
FinalOnInbox(tn) ==
    /\ tn \in DOMAIN tracking
    /\ tracking[tn].task_id \in DOMAIN tasks
    /\ tasks[tracking[tn].task_id].status \in {"completed", "rejected"}

\* An invocation of the callback is awaiting the status of tracking file tn
Polling(tn) ==
    \E slot \in Slots : callbacks[slot].pc = "poll" /\ callbacks[slot].tf = tn

\* Once the task of an accepted submission is final on the inbox, the bridge
\* eventually stops polling it
PollingStops ==
    [](FinalOnInbox("aip-a-tracking.json") => <>[]~Polling("aip-a-tracking.json"))

\* A tracking file whose status is 'completed' is not polled and not written
CompletedTrackingLeftAlone ==
    [][\A tn \in DOMAIN tracking :
          tracking[tn].status = "completed" =>
             /\ tracking'[tn] = tracking[tn]
             /\ \A slot \in Slots :
                   (callbacks'[slot].pc = "poll" /\ callbacks'[slot].tf = tn)
                      => callbacks[slot] = callbacks'[slot]
             /\ \A slot \in Slots : \A outcome \in FetchOutcomes :
                   PollReturns(slot, outcome) => callbacks[slot].tf # tn]_vars

\* C38: result polling ends per task: for every accepted submission whose
\* task becomes completed or rejected on the inbox the bridge eventually
\* stops polling that task's status, and a tracking file whose status is
\* 'completed' is never polled or rewritten again.
C38_PollingEndsPerTask ==
    PollingStops /\ CompletedTrackingLeftAlone

\* The request went past the replay check of POST /inbox
PassedReplayCheck(r) ==
    r.body.error \notin {"missing_fields", "rate_limited", "invalid_nonce"}

\* C32: inbox operations are atomic with respect to each other and to the
\* sweep.  Each handler that runs takes the state the operation before it
\* left and leaves the state and the response of the whole handler; a sweep
\* leaves the pruned map in memory and in the file.  A request passes the
\* replay check only if its nonce is not recorded, the nonce is recorded when
\* the handler ends, and no request still waiting with the same nonce can
\* pass after it; so of the requests that carry one nonce and are in flight
\* together at most one is accepted.
C32_InboxOperationsAtomic ==
    [][/\ InboxHandled =>
             LET req == last'.arg
                 out == InboxOutcome(req, now, rateBuckets, seenNonces, tasks)
             IN  /\ req \in inflight
                 /\ resp' = out.resp
                 /\ rateBuckets' = out.buckets
                 /\ seenNonces' = out.seen
                 /\ tasks' = out.tasks
                 /\ PassedReplayCheck(resp') =>
                       /\ req.nonce \notin DOMAIN seenNonces
                       /\ req.nonce \in DOMAIN seenNonces'
                       /\ \A q \in inflight' :
                             q.nonce = req.nonce =>
                                ~PassedReplayCheck(
                                    InboxOutcome(q, now, rateBuckets', seenNonces',
                                                 tasks').resp)
       /\ SweepStep =>
             /\ seenNonces' = PruneNonces(seenNonces, now)
             /\ nonceFile' = <<seenNonces'>>
             /\ UNCHANGED <<rateBuckets, tasks, receipts, inflight>>
       /\ \A id1, id2 \in DOMAIN tasks' :
             tasks'[id1].nonce = tasks'[id2].nonce => id1 = id2]_vars

\* C32 witness: two requests with the same nonce arrived in the same instant
\* and waited together; one was accepted, the sweep ran and wrote its nonce
\* to the file, and then the other was handled and refused as a replay.
C32_Witness ==
    /\ last.op = "inbox"
    /\ inflight = {}
    /\ IsError(resp, 400, "invalid_nonce")
    /\ nonceFile # << >>
    /\ last.arg.nonce \in DOMAIN nonceFile[1]
    /\ \E id \in DOMAIN tasks :
          /\ id # last.arg.task_id
          /\ tasks[id].nonce = last.arg.nonce
          /\ tasks[id].timestamp = last.arg.timestamp
          /\ tasks[id].timestamp.ms < now

====
